---------------------------- MODULE Spec2Model ----------------------------
(***************************************************************************)
(* couchdbkit: the typed-property layer (schema/properties.py) and the     *)
(* document schema engine (schema/base.py), modelled as a state machine    *)
(* over a Python-like object heap.                                         *)
(*                                                                         *)
(* Python values are records tagged by their concrete type in field t.     *)
(* Mutable containers that the program shares by reference (the canonical  *)
(* nodes of _doc, LazyDict and LazyList wrappers) live in the variable     *)
(* heap and are named by [t |-> "ref", a |-> address].  Container literals *)
(* handed in by the caller, and the fresh copies the converters build, are *)
(* trees of values.                                                        *)
(***************************************************************************)
EXTENDS Integers, Sequences, FiniteSets, TLC

VARIABLES heap,   \* the object heap: a sequence of container objects
          docs,   \* the Document instances: __dict__ of each (_doc, _dynamic_properties, ...)
          cls,    \* class-level state of the shape: _properties, _allow_dynamic_properties, _db
          held,   \* wrappers the caller keeps in local variables
          store,  \* the database: what save_doc / bulk_save received, and the stored revisions
          last    \* the last call made by the caller and its outcome

vars == <<heap, docs, cls, held, store, last>>

-----------------------------------------------------------------------------
(* Python values *)

None == [t |-> "None"]
StrV(s) == [t |-> "str", fmt |-> "text", s |-> s]
IsoDateTime(sec) == [t |-> "str", fmt |-> "datetime", sec |-> sec]
IsoDate(d) == [t |-> "str", fmt |-> "date", d |-> d]
IsoTime(sec) == [t |-> "str", fmt |-> "time", sec |-> sec]
DecimalStr(n) == [t |-> "str", fmt |-> "decimal", n |-> n]
IntV(n) == [t |-> "int", n |-> n]
FloatV(n) == [t |-> "float", n |-> n]
BoolV(b) == [t |-> "bool", b |-> b]
DateTime(sec, us) == [t |-> "datetime", sec |-> sec, us |-> us]
Date(d) == [t |-> "date", d |-> d]
Time(sec, us) == [t |-> "time", sec |-> sec, us |-> us]
Decimal(n) == [t |-> "Decimal", n |-> n]          \* decimal.Decimal("n.0")
DictV(m) == [t |-> "dict", m |-> m]
ListV(s) == [t |-> "list", s |-> s]
Ref(a) == [t |-> "ref", a |-> a]

EmptyMap == [x \in {} |-> None]
EmptyDict == DictV(EmptyMap)
EmptyList == ListV(<<>>)

\* The order in which a dict's keys are visited (CPython 2 visits a dict in
\* a fixed, hash-determined order; the model fixes one).
KeyOrder == <<"doc_type", "_id", "_rev", "s", "l", "d", "x", "y",
              "a", "b", "0", "1", "2", "3", "f", "n">>

\* str(i) for a list index used as a dict key
IndexKey(i) == <<"0", "1", "2", "3">>[i + 1]

Range(f) == {f[x] : x \in DOMAIN f}

KeysOf(m) == SelectSeq(KeyOrder, LAMBDA k : k \in DOMAIN m)

MapPut(m, k, v) == [x \in (DOMAIN m) \cup {k} |-> IF x = k THEN v ELSE m[x]]
MapDel(m, k) == [x \in (DOMAIN m) \ {k} |-> m[x]]

\* bool(value): Python 2 truth value
Truthy(v) ==
    CASE v.t = "None" -> FALSE
      [] v.t = "str" -> v # StrV("")
      [] v.t = "int" -> v.n # 0
      [] v.t = "float" -> v.n # 0
      [] v.t = "bool" -> v.b
      [] v.t = "Decimal" -> v.n # 0
      [] v.t = "time" -> ~(v.sec = 0 /\ v.us = 0)   \* midnight is false in Python 2
      [] v.t = "dict" -> DOMAIN v.m # {}
      [] v.t = "list" -> v.s # <<>>
      [] OTHER -> TRUE

IsNumber(v) == v.t \in {"int", "float", "bool", "Decimal"}
NumberOf(v) == IF v.t = "bool" THEN (IF v.b THEN 1 ELSE 0) ELSE v.n

\* a == b on scalars and literals: numbers compare by value across types
PyEq(a, b) ==
    IF IsNumber(a) /\ IsNumber(b) THEN NumberOf(a) = NumberOf(b) ELSE a = b

-----------------------------------------------------------------------------
(* properties.py: converters *)

RECURSIVE value_to_json(_)
list_to_json(s) == [i \in DOMAIN s |-> value_to_json(s[i])]
dict_to_json(m) == [k \in DOMAIN m |-> value_to_json(m[k])]
value_to_json(v) ==
    CASE v.t = "datetime" -> IsoDateTime(v.sec)
      [] v.t = "date" -> IsoDate(v.d)
      [] v.t = "time" -> IsoTime(v.sec)
      [] v.t = "Decimal" -> DecimalStr(v.n)
      [] v.t = "list" -> ListV(list_to_json(v.s))
      [] v.t = "dict" -> DictV(dict_to_json(v.m))
      [] OTHER -> v

RECURSIVE value_to_python(_)
list_to_python(s) == [i \in DOMAIN s |-> value_to_python(s[i])]
dict_to_python(m) == [k \in DOMAIN m |-> value_to_python(m[k])]
value_to_python(v) ==
    CASE v.t = "str" ->
            (CASE v.fmt = "date" -> Date(v.d)
               [] v.fmt = "time" -> Time(v.sec, 0)
               [] v.fmt = "datetime" -> DateTime(v.sec, 0)
               [] v.fmt = "decimal" -> Decimal(v.n)
               [] OTHER -> v)
      [] v.t = "list" -> ListV(list_to_python(v.s))
      [] v.t = "dict" -> DictV(dict_to_python(v.m))
      [] OTHER -> v

-----------------------------------------------------------------------------
(* The object heap.  An operation that touches the heap takes it as h and  *)
(* returns [h, v, exc]: the heap afterwards, the value returned, and the   *)
(* exception raised ("ok" when none).  What an operation wrote before it   *)
(* raised stays written.                                                   *)

DictObj(m) == [k |-> "dict", m |-> m]
ListObj(s) == [k |-> "list", s |-> s]
LazyDictObj(m, doc) == [k |-> "LazyDict", m |-> m, doc |-> doc]
LazyListObj(s, doc) == [k |-> "LazyList", s |-> s, doc |-> doc]

Ret(h, v) == [h |-> h, v |-> v, exc |-> "ok"]
Exc(h, e) == [h |-> h, v |-> None, exc |-> e]

\* One statement after another: r is the outcome of the statement just run
\* and Rest(r) is the rest of the body.
Bind(r, Rest(_)) == Rest(r)

IsRef(v) == v.t = "ref"
IsDictObj(h, v) == IsRef(v) /\ h[v.a].k \in {"dict", "LazyDict"}
IsListObj(h, v) == IsRef(v) /\ h[v.a].k \in {"list", "LazyList"}

\* isinstance(value, dict) / isinstance(value, list), on a literal or an object
IsDict(h, v) == v.t = "dict" \/ IsDictObj(h, v)
IsList(h, v) == v.t = "list" \/ IsListObj(h, v)

\* a new object at a fresh address
New(h, obj) == Ret(Append(h, obj), Ref(Len(h) + 1))

\* the key a dict holds under name k, as a value
KeyValue(k) ==
    IF k \in {"0", "1", "2", "3"}
    THEN IntV(CHOOSE n \in 0..3 : IndexKey(n) = k) ELSE StrV(k)

\* the key of an item access, as the dict key it selects
DictKey(key) == IF key.t = "int" THEN IndexKey(key.n) ELSE key.s

\* target[key] = val
SetItem(h, target, key, val) ==
    IF ~IsRef(target) THEN Exc(h, "TypeError")
    ELSE LET o == h[target.a] IN
         CASE o.k = "dict" ->
                Ret([h EXCEPT ![target.a].m = MapPut(o.m, DictKey(key), val)], None)
           [] o.k = "list" ->
                IF key.t # "int" THEN Exc(h, "TypeError")
                ELSE IF key.n + 1 \in DOMAIN o.s
                     THEN Ret([h EXCEPT ![target.a].s[key.n + 1] = val], None)
                     ELSE Exc(h, "IndexError")
           [] OTHER -> Exc(h, "TypeError")

\* target[key]
GetItem(h, target, key) ==
    IF ~IsRef(target) THEN Exc(h, "TypeError")
    ELSE LET o == h[target.a] IN
         CASE o.k \in {"dict", "LazyDict"} ->
                IF DictKey(key) \in DOMAIN o.m THEN Ret(h, o.m[DictKey(key)])
                ELSE Exc(h, "KeyError")
           [] o.k \in {"list", "LazyList"} ->
                IF key.t # "int" THEN Exc(h, "TypeError")
                ELSE IF key.n + 1 \in DOMAIN o.s THEN Ret(h, o.s[key.n + 1])
                     ELSE Exc(h, "IndexError")

SeqDel(s, i) == [j \in 1..(Len(s) - 1) |-> IF j < i THEN s[j] ELSE s[j + 1]]

\* del target[key]
DelItem(h, target, key) ==
    IF ~IsRef(target) THEN Exc(h, "TypeError")
    ELSE LET o == h[target.a] IN
         CASE o.k \in {"dict", "LazyDict"} ->
                IF DictKey(key) \in DOMAIN o.m
                THEN Ret([h EXCEPT ![target.a].m = MapDel(o.m, DictKey(key))], None)
                ELSE Exc(h, "KeyError")
           [] o.k \in {"list", "LazyList"} ->
                IF key.t # "int" THEN Exc(h, "TypeError")
                ELSE IF key.n + 1 \in DOMAIN o.s
                     THEN Ret([h EXCEPT ![target.a].s = SeqDel(o.s, key.n + 1)], None)
                     ELSE Exc(h, "IndexError")

\* target.append(val)
AppendTo(h, target, val) ==
    IF IsListObj(h, target)
    THEN Ret([h EXCEPT ![target.a].s = Append(h[target.a].s, val)], None)
    ELSE Exc(h, "AttributeError")

\* target.update({key: val})
UpdateOne(h, target, key, val) ==
    IF IsDictObj(h, target)
    THEN Ret([h EXCEPT ![target.a].m = MapPut(h[target.a].m, DictKey(key), val)], None)
    ELSE Exc(h, "AttributeError")

\* target.clear(): a Python 2 list has no clear()
ClearDict(h, target) ==
    IF IsDictObj(h, target)
    THEN Ret([h EXCEPT ![target.a].m = EmptyMap], None)
    ELSE Exc(h, "AttributeError")

\* The tree of values below v: an object is read through its own storage
\* (a wrapper's own items, not the node it mirrors).
RECURSIVE Deep(_, _)
Deep(h, v) ==
    CASE v.t = "ref" ->
            (IF h[v.a].k \in {"dict", "LazyDict"}
             THEN DictV([k \in DOMAIN h[v.a].m |-> Deep(h, h[v.a].m[k])])
             ELSE ListV([i \in DOMAIN h[v.a].s |-> Deep(h, h[v.a].s[i])]))
      [] v.t = "dict" -> DictV([k \in DOMAIN v.m |-> Deep(h, v.m[k])])
      [] v.t = "list" -> ListV([i \in DOMAIN v.s |-> Deep(h, v.s[i])])
      [] OTHER -> v

\* A tree of plain values built as fresh dict and list objects (what storing
\* the result of value_to_json into _doc puts on the heap).
RECURSIVE Build(_, _), BuildDict(_, _, _, _), BuildList(_, _, _, _)
Build(h, v) ==
    CASE v.t = "dict" -> BuildDict(h, v.m, KeysOf(v.m), EmptyMap)
      [] v.t = "list" -> BuildList(h, v.s, 1, <<>>)
      [] OTHER -> Ret(h, v)
BuildDict(h, m, keys, acc) ==
    IF keys = <<>> THEN New(h, DictObj(acc))
    ELSE Bind(Build(h, m[Head(keys)]), LAMBDA r :
             BuildDict(r.h, m, Tail(keys), MapPut(acc, Head(keys), r.v)))
BuildList(h, s, i, acc) ==
    IF i > Len(s) THEN New(h, ListObj(acc))
    ELSE Bind(Build(h, s[i]), LAMBDA r :
             BuildList(r.h, s, i + 1, Append(acc, r.v)))

-----------------------------------------------------------------------------
(* properties.py: LazyDict and LazyList.  self is a reference to the       *)
(* wrapper object; its field doc is the node it was given to mirror, its   *)
(* field m or s is the storage it inherits from dict or list.              *)

\* dict.__setitem__(self, key, value) / list.__setitem__(self, index, value)
OwnPut(h, self, key, val) ==
    Ret([h EXCEPT ![self.a].m = MapPut(h[self.a].m, DictKey(key), val)], None)
OwnSet(h, self, index, val) ==
    IF index + 1 \in DOMAIN h[self.a].s
    THEN Ret([h EXCEPT ![self.a].s[index + 1] = val], None)
    ELSE Exc(h, "IndexError")

\* the literal a constructor iterates when it is handed v
AsLiteral(h, v) == IF IsRef(v) THEN Deep(h, v) ELSE v

\* a __setitem__ that keeps the value in the wrapper and leaves self.doc alone
SetItemUnmirrored(h, self, key, value) == OwnPut(h, self, key, value)

RECURSIVE LazyDict__init__(_, _, _), LazyDictFill(_, _, _, _),
          LazyDict__setitem__(_, _, _, _),
          LazyList__init__(_, _, _), LazyListFill(_, _, _, _),
          LazyList__setitem__(_, _, _, _)

\* LazyDict(d, doc)
LazyDict__init__(h, d, doc) ==
    Bind(AsLiteral(h, d), LAMBDA dl :
    Bind(New(h, LazyDictObj(EmptyMap, doc)), LAMBDA n :
        IF ~Truthy(dl) THEN n                           \* d = d or {}
        ELSE IF dl.t # "dict" THEN Exc(h, "AttributeError")   \* d.items()
        ELSE Bind(LazyDictFill(n.h, n.v, dl.m, KeysOf(dl.m)), LAMBDA r :
                 IF r.exc = "ok" THEN Ret(r.h, n.v) ELSE r)))

\* for key, value in d.items(): self[key] = value
LazyDictFill(h, self, m, keys) ==
    IF keys = <<>> THEN Ret(h, None)
    ELSE Bind(LazyDict__setitem__(h, self, StrV(Head(keys)), m[Head(keys)]), LAMBDA r :
             IF r.exc = "ok" THEN LazyDictFill(r.h, self, m, Tail(keys)) ELSE r)

\* self[key] = value
LazyDict__setitem__(h, self, key, value) ==
    LET doc == h[self.a].doc IN
    IF IsDict(h, value) THEN
        Bind(New(h, DictObj(EmptyMap)), LAMBDA n :
        Bind(SetItem(n.h, doc, key, n.v), LAMBDA r1 :    \* self.doc[key] = {}
            IF r1.exc # "ok" THEN Exc(h, r1.exc)
            ELSE Bind(GetItem(r1.h, doc, key), LAMBDA g :
                 Bind(LazyDict__init__(g.h, value, g.v), LAMBDA r2 :
                     IF r2.exc # "ok" THEN r2 ELSE OwnPut(r2.h, self, key, r2.v)))))
    ELSE IF IsList(h, value) THEN
        Bind(GetItem(h, doc, key), LAMBDA g :            \* self.doc[key], never created
            IF g.exc # "ok" THEN g
            ELSE Bind(LazyList__init__(h, value, g.v), LAMBDA r2 :
                     IF r2.exc # "ok" THEN r2 ELSE OwnPut(r2.h, self, key, r2.v)))
    ELSE
        Bind(UpdateOne(h, doc, key, value_to_json(value)), LAMBDA r1 :
            IF r1.exc # "ok" THEN r1 ELSE OwnPut(r1.h, self, key, value))

\* LazyList(l, doc)
LazyList__init__(h, l, doc) ==
    Bind(AsLiteral(h, l), LAMBDA ll :
    Bind(IF ~Truthy(ll) THEN <<>>                        \* l = l or []
         ELSE IF ll.t = "dict"                           \* a dict iterates its keys
              THEN [j \in DOMAIN KeysOf(ll.m) |-> KeyValue(KeysOf(ll.m)[j])]
              ELSE ll.s, LAMBDA items :
        IF Truthy(ll) /\ ll.t \notin {"list", "dict"} THEN Exc(h, "Unmodelled")
        ELSE Bind(New(h, LazyListObj(items, doc)), LAMBDA n :   \* list.__init__(self, l)
             Bind(LazyListFill(n.h, n.v, items, 1), LAMBDA r :
                 IF r.exc = "ok" THEN Ret(r.h, n.v) ELSE r))))

\* for idx, item in enumerate(l): self[idx] = item
LazyListFill(h, self, items, i) ==
    IF i > Len(items) THEN Ret(h, None)
    ELSE Bind(LazyList__setitem__(h, self, i - 1, items[i]), LAMBDA r :
             IF r.exc = "ok" THEN LazyListFill(r.h, self, items, i + 1) ELSE r)

\* self[index] = value
LazyList__setitem__(h, self, index, value) ==
    LET doc == h[self.a].doc IN
    IF IsDict(h, value) THEN
        Bind(New(h, DictObj(EmptyMap)), LAMBDA n :
        Bind(SetItem(n.h, doc, IntV(index), n.v), LAMBDA r1 :   \* self.doc[index] = {}
            IF r1.exc # "ok" THEN Exc(h, r1.exc)
            ELSE Bind(GetItem(r1.h, doc, IntV(index)), LAMBDA g :
                 Bind(LazyDict__init__(g.h, value, g.v), LAMBDA r2 :
                     IF r2.exc # "ok" THEN r2 ELSE OwnSet(r2.h, self, index, r2.v)))))
    ELSE IF IsList(h, value) THEN
        Bind(New(h, ListObj(<<>>)), LAMBDA n :
        Bind(SetItem(n.h, doc, IntV(index), n.v), LAMBDA r1 :   \* self.doc[index] = []
            IF r1.exc # "ok" THEN Exc(h, r1.exc)
            ELSE Bind(GetItem(r1.h, doc, IntV(index)), LAMBDA g :
                 Bind(LazyList__init__(g.h, value, g.v), LAMBDA r2 :
                     IF r2.exc # "ok" THEN r2 ELSE OwnSet(r2.h, self, index, r2.v)))))
    ELSE
        Bind(SetItem(h, doc, IntV(index), value_to_json(value)), LAMBDA r1 :
            IF r1.exc # "ok" THEN r1 ELSE OwnSet(r1.h, self, index, value))

\* self.append(value)
LazyList_append(h, self, value) ==
    LET doc == h[self.a].doc
        index == Len(h[self.a].s)
        own(hh, v) == Ret([hh EXCEPT ![self.a].s = Append(hh[self.a].s, v)], None)
    IN
    IF IsDict(h, value) THEN
        Bind(New(h, DictObj(EmptyMap)), LAMBDA n :
        Bind(AppendTo(n.h, doc, n.v), LAMBDA r1 :        \* self.doc.append({})
            IF r1.exc # "ok" THEN Exc(h, r1.exc)
            ELSE Bind(GetItem(r1.h, doc, IntV(index)), LAMBDA g :
                 IF g.exc # "ok" THEN g
                 ELSE Bind(LazyDict__init__(g.h, value, g.v), LAMBDA r2 :
                          IF r2.exc # "ok" THEN r2 ELSE own(r2.h, r2.v)))))
    ELSE IF IsList(h, value) THEN
        Bind(New(h, ListObj(<<>>)), LAMBDA n :
        Bind(AppendTo(n.h, doc, n.v), LAMBDA r1 :        \* self.doc.append([])
            IF r1.exc # "ok" THEN Exc(h, r1.exc)
            ELSE Bind(GetItem(r1.h, doc, IntV(index)), LAMBDA g :
                 IF g.exc # "ok" THEN g
                 ELSE Bind(LazyList__init__(g.h, value, g.v), LAMBDA r2 :
                          IF r2.exc # "ok" THEN r2 ELSE own(r2.h, r2.v)))))
    ELSE
        Bind(AppendTo(h, doc, value_to_json(value)), LAMBDA r1 :
            IF r1.exc # "ok" THEN r1 ELSE own(r1.h, value))

\* del self[key]
LazyDict__delitem__(h, self, key) ==
    Bind(DelItem(h, h[self.a].doc, key), LAMBDA r1 :     \* del self.doc[key]
        IF r1.exc # "ok" THEN r1 ELSE DelItem(r1.h, self, key))

\* self.pop(key): dict.pop accepts no keyword argument, so the call
\* super(LazyDict, self).pop(key, default=default) raises TypeError
LazyDict_pop(h, self, key) ==
    Bind(DelItem(h, h[self.a].doc, key), LAMBDA r1 :     \* del self.doc[key]
        IF r1.exc # "ok" THEN r1 ELSE Exc(r1.h, "TypeError"))

\* self.update(value)
LazyDict_update(h, self, value) ==
    LazyDictFill(h, self, value.m, KeysOf(value.m))

\* self.clear()
LazyDict_clear(h, self) ==
    Bind(ClearDict(h, h[self.a].doc), LAMBDA r1 :
        IF r1.exc # "ok" THEN r1 ELSE ClearDict(r1.h, self))

\* del self[index]
LazyList__delitem__(h, self, index) ==
    Bind(DelItem(h, h[self.a].doc, IntV(index)), LAMBDA r1 :   \* del self.doc[index]
        IF r1.exc # "ok" THEN r1 ELSE DelItem(r1.h, self, IntV(index)))

\* self.pop(): LazyList does not override it, list.pop acts on the wrapper alone
LazyList_pop(h, self) ==
    LET s == h[self.a].s IN
    IF s = <<>> THEN Exc(h, "IndexError")
    ELSE Ret([h EXCEPT ![self.a].s = SubSeq(s, 1, Len(s) - 1)], s[Len(s)])

-----------------------------------------------------------------------------
(* properties.py: Property and its subclasses.  A descriptor is a record   *)
(* of its configuration; kind names the subclass.                          *)

Prop(kind, name, required, choices, default, item_type) ==
    [isprop |-> TRUE, kind |-> kind, name |-> name, required |-> required,
     choices |-> choices, default |-> default, item_type |-> item_type,
     validators |-> <<>>]

\* the outcome of a pure call: the value returned or the exception raised
Val(v) == [exc |-> "ok", msg |-> "", v |-> v]
Fail(e, msg) == [exc |-> e, msg |-> msg, v |-> None]

\* Property.empty, overridden by IntegerProperty alone
Property_empty(p, value) ==
    IF p.kind = "Integer" THEN value = None
    ELSE ~Truthy(value) \/ value = None

\* the loop over self.choices of Property.validate
RECURSIVE ChoicesLoop(_, _, _)
ChoicesLoop(choices, value, match) ==
    IF choices = <<>> THEN Val(value)
    ELSE LET m == match \/ PyEq(Head(choices), value)
         IN  IF ~m THEN Fail("BadValueError", "choices")
             ELSE ChoicesLoop(Tail(choices), value, m)

\* the loop over self.validators of Property.validate.  A validator is a
\* function that raises BadValueError on the one value it refuses
\* (def v(value): if value == refused: raise BadValueError) and is
\* represented by that value.
RECURSIVE ValidatorsLoop(_, _)
ValidatorsLoop(validators, value) ==
    IF validators = <<>> THEN Val(value)
    ELSE IF PyEq(value, Head(validators)) THEN Fail("BadValueError", "validator")
    ELSE ValidatorsLoop(Tail(validators), value)

\* Property.validate(value, required)
Property_validate(p, value, required) ==
    Bind(IF required /\ Property_empty(p, value)
         THEN (IF p.required THEN Fail("BadValueError", "required") ELSE Val(value))
         ELSE IF p.choices # <<>> THEN ChoicesLoop(p.choices, value, FALSE)
         ELSE Val(value), LAMBDA r :
        IF r.exc # "ok" THEN r ELSE ValidatorsLoop(p.validators, value))

\* validate_content / validate_list_content / validate_dict_content
RECURSIVE validate_content(_, _)
validate_content(value, item_type) ==
    CASE value.t = "list" -> \A i \in DOMAIN value.s : validate_content(value.s[i], item_type)
      [] value.t = "dict" -> \A k \in DOMAIN value.m : validate_content(value.m[k], item_type)
      [] OTHER -> (item_type = "none" \/ value.t = item_type) /\ value.t # "object"

\* the validate of each subclass, after the base class's
validate(p, value, required) ==
    LET type(ok) == IF ok THEN Val(value) ELSE Fail("BadValueError", "type") IN
    Bind(Property_validate(p, value, required), LAMBDA r :
        IF r.exc # "ok" THEN r
        ELSE CASE p.kind = "String" -> type(value = None \/ value.t = "str")
               [] p.kind = "Integer" -> type(value = None \/ value.t \in {"int", "bool"})
               [] p.kind = "Float" -> type(value = None \/ value.t = "float")
               [] p.kind = "Boolean" -> type(value = None \/ value.t = "bool")
               [] p.kind = "DateTime" -> type(~Truthy(value) \/ value.t = "datetime")
               [] p.kind = "Date" -> type(~Truthy(value) \/ value.t \in {"date", "datetime"})
               [] p.kind = "Time" -> type(~Truthy(value) \/ value.t = "time")
               [] p.kind = "Dict" ->
                    IF ~Truthy(value) THEN Val(value)
                    ELSE IF value.t # "dict" THEN Fail("BadValueError", "type")
                    ELSE IF ~validate_content(value, "none") THEN Fail("BadValueError", "items")
                    ELSE Val(value)
               [] p.kind = "List" ->
                    IF ~Truthy(value) THEN Val(value)
                    ELSE IF value.t # "list" THEN Fail("BadValueError", "type")
                    ELSE IF ~validate_content(value, p.item_type) THEN Fail("BadValueError", "items")
                    ELSE Val(value)
               [] OTHER -> r)                      \* DecimalProperty has no validate of its own

\* unicode(value), int(value), float(value) on the values the model holds
Unicode(v) ==
    CASE v.t = "str" -> Val(v)
      [] v.t = "None" -> Val(StrV("None"))
      [] v.t = "Decimal" -> Val(DecimalStr(v.n))
      [] OTHER -> Fail("Unmodelled", "unicode")
IntOf(v) ==
    CASE v.t \in {"int", "bool", "float", "Decimal"} -> Val(IntV(NumberOf(v)))
      [] v.t = "str" -> Fail("ValueError", "int")
      [] OTHER -> Fail("TypeError", "int")
FloatOf(v) ==
    CASE v.t \in {"int", "bool", "float", "Decimal"} -> Val(FloatV(NumberOf(v)))
      [] v.t = "str" -> Fail("ValueError", "float")
      [] OTHER -> Fail("TypeError", "float")

\* a to_python that hands the stored value back as it is
to_python_raw(p, value) == Val(value)

\* to_python of the scalar kinds (DictProperty and ListProperty build a wrapper)
to_python(p, value) ==
    CASE p.kind = "String" -> Unicode(value)
      [] p.kind = "Integer" -> IntOf(value)
      [] p.kind = "Float" -> FloatOf(value)
      [] p.kind = "Boolean" -> Val(BoolV(Truthy(value)))
      [] p.kind = "Decimal" ->
            (CASE value.t = "str" /\ value.fmt = "decimal" -> Val(Decimal(value.n))
               [] value.t \in {"int", "Decimal"} -> Val(Decimal(value.n))
               [] value.t = "str" -> Fail("InvalidOperation", "Decimal")
               [] OTHER -> Fail("TypeError", "Decimal"))
      [] p.kind = "DateTime" ->
            (CASE value.t = "str" /\ value.fmt = "datetime" -> Val(DateTime(value.sec, 0))
               [] value.t = "str" -> Fail("ValueError", "datetime")
               [] OTHER -> Val(value))
      [] p.kind = "Date" ->
            (CASE value.t = "str" /\ value.fmt = "date" -> Val(Date(value.d))
               [] value.t = "str" -> Fail("ValueError", "date")
               [] OTHER -> Val(value))
      [] p.kind = "Time" ->
            (CASE value.t = "str" /\ value.fmt = "time" -> Val(Time(value.sec, 0))
               [] value.t = "str" -> Fail("ValueError", "time")
               [] OTHER -> Val(value))

\* to_json of every kind
to_json(p, value) ==
    CASE p.kind \in {"String", "Integer", "Float", "Boolean"} -> to_python(p, value)
      [] p.kind = "Decimal" -> Unicode(value)
      [] p.kind = "DateTime" ->
            (CASE value.t = "datetime" -> Val(IsoDateTime(value.sec))
               [] value.t \in {"str", "date"} -> Fail("TypeError", "replace")
               [] value.t = "time" -> Fail("Unmodelled", "isoformat")
               [] OTHER -> Fail("AttributeError", "replace"))
      [] p.kind = "Date" ->
            (CASE value.t = "date" -> Val(IsoDate(value.d))
               [] value.t = "datetime" -> Fail("Unmodelled", "isoformat")
               [] OTHER -> Fail("AttributeError", "isoformat"))
      [] p.kind = "Time" ->
            (CASE value.t = "time" -> Val(IsoTime(value.sec))
               [] value.t \in {"str", "date"} -> Fail("TypeError", "replace")
               [] value.t = "datetime" -> Fail("Unmodelled", "isoformat")
               [] OTHER -> Fail("AttributeError", "replace"))
      [] p.kind \in {"Dict", "List"} -> Val(value_to_json(value))

\* MAP_TYPES_PROPERTIES: the kind of the property built for a value's type
MAP_TYPES_PROPERTIES(v) ==
    CASE v.t = "Decimal" -> "Decimal"
      [] v.t = "datetime" -> "DateTime"
      [] v.t = "date" -> "Date"
      [] v.t = "time" -> "Time"
      [] v.t = "str" -> "String"
      [] v.t = "bool" -> "Boolean"
      [] v.t = "int" -> "Integer"
      [] v.t = "float" -> "Float"
      [] v.t = "list" -> "List"
      [] v.t = "dict" -> "Dict"
      [] OTHER -> "none"

\* convert_property(value)
convert_property(value) ==
    IF MAP_TYPES_PROPERTIES(value) = "none" THEN Val(value)
    ELSE to_json(Prop(MAP_TYPES_PROPERTIES(value), "", FALSE, <<>>, None, "none"), value)

\* a default_value that hands out the configured default of every kind
default_value_plain(p) == p.default

\* Property.default_value, DictProperty.default_value, ListProperty.default_value
default_value(p) ==
    CASE p.kind = "Dict" -> IF p.default = None THEN EmptyDict ELSE p.default
      [] p.kind = "List" -> IF p.default = None THEN EmptyList ELSE p.default
      [] OTHER -> p.default

\* dict(value) / list(value), the last step of DictProperty.default_value and
\* ListProperty.default_value: a new container holding the same items.  A
\* default written as a literal in the class body has no other holder; a
\* default that lives on the heap keeps its nested containers in common
\* with the copy.
shallow_copy(h, value) ==
    IF ~IsRef(value) THEN value
    ELSE IF h[value.a].k \in {"dict", "LazyDict"} THEN DictV(h[value.a].m)
    ELSE ListV(h[value.a].s)

-----------------------------------------------------------------------------
(* base.py: DocumentSchema.  An operation on a document takes the world w  *)
(* = [heap, docs, cls, store] and returns [w, v, exc].  docs[i] is the     *)
(* __dict__ of instance i: _doc (a reference to its canonical dict), dyn   *)
(* (_dynamic_properties) and attrs (whatever else object.__setattr__ put   *)
(* there).  cls.desc are the descriptors bound as class attributes,        *)
(* cls.props is the class's _properties dict, cls.allow is                 *)
(* _allow_dynamic_properties and cls.db tells whether _db is set.          *)

WRet(w, v) == [w |-> w, v |-> v, exc |-> "ok"]
WExc(w, e) == [w |-> w, v |-> None, exc |-> e]

\* a heap operation's outcome as an outcome on the world
Lift(w, r) == [w |-> [w EXCEPT !.heap = r.h], v |-> r.v, exc |-> r.exc]

_RESERVED_WORDS == {"_id", "_rev", "$schema", "type"}

\* key.startswith('_')
StartsWithUnderscore(key) == key \in {"_id", "_rev", "_doc", "_db", "_attachments"}

\* self._doc.get(key)
DocGet(w, i, key) ==
    LET m == w.heap[w.docs[i]._doc.a].m
    IN  IF key \in DOMAIN m THEN m[key] ELSE None

\* Property.__get__(self, document_instance, document_class)
Property__get__(w, i, p) ==
    Bind(DocGet(w, i, p.name), LAMBDA value :
    IF value = None THEN WRet(w, None)
    ELSE CASE p.kind = "Dict" ->
                Lift(w, LazyDict__init__(w.heap, value_to_python(Deep(w.heap, value)), value))
           [] p.kind = "List" ->
                Lift(w, LazyList__init__(w.heap, value_to_python(Deep(w.heap, value)), value))
           [] OTHER ->
                Bind(to_python(p, AsLiteral(w.heap, value)), LAMBDA r :
                    IF r.exc = "ok" THEN WRet(w, r.v) ELSE WExc(w, r.exc)))

\* Property.__set__ with the value stored as it is handed in
Property__set__unconverted(w, i, p, value) ==
    Bind(validate(p, Deep(w.heap, value), FALSE), LAMBDA r :
    IF r.exc # "ok" THEN WExc(w, r.exc)
    ELSE Bind(Build(w.heap, value), LAMBDA b :
             Lift(w, SetItem(b.h, w.docs[i]._doc, StrV(p.name), b.v))))

\* Property.__set__ with the canonical value stored before validate has run
Property__set__late(w, i, p, value) ==
    Bind(validate(p, Deep(w.heap, value), FALSE), LAMBDA r :
    Bind(to_json(p, Deep(w.heap, value)), LAMBDA j :
        IF j.exc # "ok" THEN WExc(w, IF r.exc # "ok" THEN r.exc ELSE j.exc)
        ELSE Bind(Build(w.heap, j.v), LAMBDA b :
             Bind(Lift(w, SetItem(b.h, w.docs[i]._doc, StrV(p.name), b.v)), LAMBDA st :
                 IF r.exc # "ok" THEN WExc(st.w, r.exc) ELSE st))))

\* Property.__set__(self, document_instance, value)
Property__set__(w, i, p, value) ==
    Bind(validate(p, Deep(w.heap, value), FALSE), LAMBDA r :
    IF r.exc # "ok" THEN WExc(w, r.exc)
    ELSE Bind(to_json(p, r.v), LAMBDA j :
         IF j.exc # "ok" THEN WExc(w, j.exc)
         ELSE Bind(Build(w.heap, j.v), LAMBDA b :
                  Lift(w, SetItem(b.h, w.docs[i]._doc, StrV(p.name), b.v)))))

\* Property.__property_init__(self, document_instance, value)
Property__property_init__(w, i, p, value) ==
    IF value = None
    THEN Lift(w, SetItem(w.heap, w.docs[i]._doc, StrV(p.name), None))
    ELSE Property__set__(w, i, p, value)

\* getattr(self, key): the descriptor of the class, then the instance's
\* __dict__, then DocumentSchema.__getattr__
GetAttr(w, i, key) ==
    LET d == w.docs[i] IN
    IF key \in DOMAIN w.cls.desc THEN Property__get__(w, i, w.cls.desc[key])
    ELSE IF key \in DOMAIN d.attrs THEN WRet(w, d.attrs[key])
    ELSE IF key \in DOMAIN d.dyn THEN WRet(w, d.dyn[key])
    ELSE IF key \in {"_id", "_rev"} THEN WRet(w, DocGet(w, i, key))
    ELSE WExc(w, "AttributeError")

\* hasattr(self, key): Python 2 answers False on any exception of the lookup
HasAttr(w, i, key) ==
    Bind(GetAttr(w, i, key), LAMBDA r : [w |-> r.w, v |-> r.exc = "ok"])

\* key in dir(self)
InDir(w, i, key) ==
    key \in (DOMAIN w.docs[i].attrs) \cup (DOMAIN w.cls.desc) \cup {"_doc", "_db"}

\* valid_id(value)
valid_id(value) == value.t = "str"

\* a dynamic branch that registers the value before it looks at its type
SetDynamicUnchecked(w, i, key, value) ==
    Bind([w EXCEPT !.docs[i].dyn = MapPut(w.docs[i].dyn, key, value)], LAMBDA w1 :
        IF value.t \in {"object", "dict", "list"} THEN WExc(w1, "TypeError")
        ELSE Bind(convert_property(value), LAMBDA c :
                 IF c.exc # "ok" THEN WExc(w1, c.exc)
                 ELSE Lift(w1, SetItem(w1.heap, w1.docs[i]._doc, StrV(key), c.v))))

\* the dynamic branch of DocumentSchema.__setattr__ (lines 194-218)
SetDynamic(w, i, key, value) ==
    LET doc == w.docs[i]._doc
        put(w2, v) == [w2 EXCEPT !.docs[i].dyn = MapPut(w2.docs[i].dyn, key, v)]
    IN
    IF value.t = "object" THEN WExc(w, "TypeError")
    ELSE IF value.t \in {"dict", "list"} THEN
        LET fresh == key \notin DOMAIN w.heap[doc.a].m \/ ~Truthy(value) IN
        Bind(New(w.heap, IF value.t = "dict" THEN DictObj(EmptyMap) ELSE ListObj(<<>>)), LAMBDA n :
        Bind(IF fresh THEN SetItem(n.h, doc, StrV(key), n.v).h ELSE w.heap, LAMBDA h1 :
        Bind(h1[doc.a].m[key], LAMBDA node :
        Bind(IF value.t = "dict" THEN LazyDict__init__(h1, value, node)
                                 ELSE LazyList__init__(h1, value, node), LAMBDA r :
            IF r.exc # "ok" THEN Lift(w, r)
            ELSE WRet(put([w EXCEPT !.heap = r.h], r.v), None)))))
    ELSE
        Bind(convert_property(value), LAMBDA c :
            IF c.exc # "ok" THEN WExc(put(w, value), c.exc)
            ELSE Lift(put(w, value), SetItem(w.heap, doc, StrV(key), c.v)))

\* object.__setattr__(self, key, value)
ObjectSetAttr(w, i, key, value) ==
    IF key \in DOMAIN w.cls.desc THEN Property__set__(w, i, w.cls.desc[key], value)
    ELSE WRet([w EXCEPT !.docs[i].attrs = MapPut(w.docs[i].attrs, key, value)], None)

\* DocumentSchema.__setattr__(self, key, value)
DocumentSchema__setattr__(w, i, key, value) ==
    IF key = "_id" /\ valid_id(value) /\ Truthy(value)
    THEN Lift(w, SetItem(w.heap, w.docs[i]._doc, StrV("_id"), value))
    ELSE IF key = "_id" /\ ~valid_id(value) THEN WExc(w, "TypeError")
    ELSE IF key \in _RESERVED_WORDS THEN WExc(w, "ReservedWordError")
    ELSE Bind(HasAttr(w, i, key), LAMBDA ha :
         Bind(ha.w, LAMBDA w1 :
             IF ~ha.v /\ ~w1.cls.allow THEN WExc(w1, "AttributeError")
             ELSE IF ~StartsWithUnderscore(key) /\ key \notin DOMAIN w1.cls.props
                     /\ ~InDir(w1, i, key)
                  THEN SetDynamic(w1, i, key, value)
                  ELSE ObjectSetAttr(w1, i, key, value)))

\* DocumentSchema.__delattr__ without the del self._doc[key]
DocumentSchema__delattr__kept(w, i, key) ==
    IF key \in DOMAIN w.docs[i].dyn
    THEN WRet([w EXCEPT !.docs[i].dyn = MapDel(w.docs[i].dyn, key)], None)
    ELSE IF key \in DOMAIN w.cls.desc THEN WRet(w, None)
    ELSE IF key \in DOMAIN w.docs[i].attrs
         THEN WRet([w EXCEPT !.docs[i].attrs = MapDel(w.docs[i].attrs, key)], None)
    ELSE WExc(w, "AttributeError")

\* DocumentSchema.__delattr__(self, key)
DocumentSchema__delattr__(w, i, key) ==
    LET doc == w.docs[i]._doc IN
    Bind(IF key \in DOMAIN w.heap[doc.a].m
         THEN [w EXCEPT !.heap = DelItem(w.heap, doc, StrV(key)).h] ELSE w, LAMBDA w1 :
        IF key \in DOMAIN w1.docs[i].dyn
        THEN WRet([w1 EXCEPT !.docs[i].dyn = MapDel(w1.docs[i].dyn, key)], None)
        ELSE IF key \in DOMAIN w1.cls.desc THEN WRet(w1, None)      \* Property.__delete__
        ELSE IF key \in DOMAIN w1.docs[i].attrs
             THEN WRet([w1 EXCEPT !.docs[i].attrs = MapDel(w1.docs[i].attrs, key)], None)
        ELSE WExc(w1, "AttributeError"))

\* DocumentSchema.all_properties(self): the class's _properties dict itself
\* is updated with the instance's dynamic properties
all_properties(w, i) ==
    LET dyn == w.docs[i].dyn
        merged == [k \in (DOMAIN w.cls.props) \cup (DOMAIN dyn) |->
                     IF k \in DOMAIN dyn THEN [isprop |-> FALSE, v |-> dyn[k]]
                     ELSE w.cls.props[k]]
    IN  WRet([w EXCEPT !.cls.props = merged], merged)

\* DocumentSchema.validate(self, required)
RECURSIVE ValidateLoop(_, _, _, _)
ValidateLoop(w, i, keys, required) ==
    IF keys = <<>> THEN WRet(w, BoolV(TRUE))
    ELSE IF Head(keys) \notin DOMAIN w.cls.props THEN ValidateLoop(w, i, Tail(keys), required)
    ELSE IF ~w.cls.props[Head(keys)].isprop THEN WExc(w, "AttributeError")
    ELSE Bind(GetAttr(w, i, Head(keys)), LAMBDA g :
         IF g.exc # "ok" THEN g
         ELSE Bind(validate(w.cls.props[Head(keys)], AsLiteral(g.w.heap, g.v), required), LAMBDA r :
                  IF r.exc # "ok" THEN WExc(g.w, r.exc)
                  ELSE ValidateLoop(g.w, i, Tail(keys), required)))
DocumentSchema_validate(w, i, required) ==
    ValidateLoop(w, i, KeysOf(w.heap[w.docs[i]._doc.a].m), required)

\* DocumentSchema.to_json(self)
DocumentSchema_to_json(w, i) ==
    IF DocGet(w, i, "doc_type") = None
    THEN Lift(w, SetItem(w.heap, w.docs[i]._doc, StrV("doc_type"), StrV("A")))
    ELSE WRet(w, None)

\* DocumentSchema.__init__(self, _d=None, **properties) for a new instance,
\* which becomes docs[Len(docs) + 1]
RECURSIVE InitDeclared(_, _, _, _)
InitDeclared(w, i, names, properties) ==
    IF names = <<>> THEN WRet(w, None)
    ELSE LET entry == w.cls.props[Head(names)] IN
         IF ~entry.isprop THEN WExc(w, "AttributeError")           \* prop.name
         ELSE LET given == IF entry.name \in DOMAIN properties
                           THEN properties[entry.name] ELSE None
                  value == IF given = None
                           THEN shallow_copy(w.heap, default_value(entry)) ELSE given
              IN  Bind(Property__property_init__(w, i, entry, value), LAMBDA r :
                      IF r.exc # "ok" THEN r
                      ELSE InitDeclared(r.w, i, Tail(names), properties))

RECURSIVE InitDynamic(_, _, _, _)
InitDynamic(w, i, names, properties) ==
    IF names = <<>> THEN WRet(w, None)
    ELSE IF Head(names) \in DOMAIN w.cls.props \/ properties[Head(names)] = None
         THEN InitDynamic(w, i, Tail(names), properties)
         ELSE Bind(DocumentSchema__setattr__(w, i, Head(names), properties[Head(names)]), LAMBDA r :
                  IF r.exc # "ok" THEN r
                  ELSE InitDynamic(r.w, i, Tail(names), properties))

DocumentSchema__init__(w, properties) ==
    LET i == Len(w.docs) + 1 IN
    Bind(New(w.heap, DictObj([k \in {"doc_type"} |-> StrV("A")])), LAMBDA n :
    Bind([w EXCEPT !.heap = n.h,
                   !.docs = Append(w.docs, [_doc |-> n.v, dyn |-> EmptyMap,
                                            attrs |-> EmptyMap])], LAMBDA w0 :
    Bind(InitDeclared(w0, i, KeysOf(w0.cls.props), properties), LAMBDA r1 :
        IF r1.exc # "ok" THEN WExc(w, r1.exc)
        ELSE Bind(InitDynamic(r1.w, i, KeysOf(properties), properties), LAMBDA r2 :
                 IF r2.exc # "ok" THEN WExc(w, r2.exc) ELSE r2))))

\* DocumentSchema.wrap(cls, data): data is the dict the caller hands over
\* (already on the heap); the new instance becomes docs[Len(docs) + 1]
RECURSIVE WrapDeclared(_, _, _)
WrapDeclared(w, i, names) ==
    IF names = <<>> THEN WRet(w, None)
    ELSE Bind(w.cls.props[Head(names)], LAMBDA prop :
         IF ~prop.isprop THEN WExc(w, "AttributeError")             \* prop.name
         ELSE Bind(DocGet(w, i, prop.name), LAMBDA stored :
              Bind(IF stored = None THEN WRet(w, shallow_copy(w.heap, default_value(prop)))
                   ELSE CASE prop.kind = "Dict" ->
                               Lift(w, LazyDict__init__(w.heap,
                                          value_to_python(Deep(w.heap, stored)), stored))
                          [] prop.kind = "List" ->
                               Lift(w, LazyList__init__(w.heap,
                                          value_to_python(Deep(w.heap, stored)), stored))
                          [] OTHER ->
                               Bind(to_python(prop, AsLiteral(w.heap, stored)), LAMBDA r :
                                   IF r.exc = "ok" THEN WRet(w, r.v) ELSE WExc(w, r.exc)),
                   LAMBDA value :
                  IF value.exc # "ok" THEN value
                  ELSE Bind(Property__property_init__(value.w, i, prop,
                                                      AsLiteral(value.w.heap, value.v)), LAMBDA r :
                           IF r.exc # "ok" THEN r
                           ELSE WrapDeclared(r.w, i, Tail(names))))))

\* for attr_name, value in data.iteritems(): ...
RECURSIVE WrapDynamic(_, _, _)
WrapDynamic(w, i, names) ==
    IF names = <<>> THEN WRet(w, None)
    ELSE Bind(DocGet(w, i, Head(names)), LAMBDA value :
         IF \/ Head(names) \in DOMAIN w.cls.props
            \/ value = None
            \/ StartsWithUnderscore(Head(names))
            \/ Head(names) = "doc_type"
         THEN WrapDynamic(w, i, Tail(names))
         ELSE Bind(DocumentSchema__setattr__(w, i, Head(names),
                                             value_to_python(Deep(w.heap, value))), LAMBDA r :
                  IF r.exc # "ok" THEN r
                  ELSE WrapDynamic(r.w, i, Tail(names))))

DocumentSchema_wrap(w, data) ==
    LET i == Len(w.docs) + 1 IN
    Bind(DocumentSchema__init__(w, EmptyMap), LAMBDA c :            \* instance = cls()
        IF c.exc # "ok" THEN c
        ELSE Bind([c.w EXCEPT !.docs[i]._doc = data], LAMBDA w1 :   \* instance._doc = data
             Bind(WrapDeclared(w1, i, KeysOf(w1.cls.props)), LAMBDA r1 :
                 IF r1.exc # "ok" THEN WExc(w, r1.exc)
                 ELSE IF ~r1.w.cls.allow THEN r1
                 ELSE Bind(WrapDynamic(r1.w, i, KeysOf(r1.w.heap[data.a].m)), LAMBDA r2 :
                          IF r2.exc # "ok" THEN WExc(w, r2.exc) ELSE r2))))

\* SchemaProperties.__new__(cls, name, bases, attrs).  A class is the
\* record [desc, props, allow, db]; an attribute of the class body is a
\* descriptor (a Prop, its name "" while none was given) or any other
\* value, [isprop |-> FALSE, v |-> value].
Attr(v) == [isprop |-> FALSE, v |-> v]

\* properties.update(other)
dict_update(m, other) ==
    [k \in (DOMAIN m) \cup (DOMAIN other) |-> IF k \in DOMAIN other THEN other[k] ELSE m[k]]

\* Property.__property_config__(self, document_class, property_name)
Property__property_config__(prop, property_name) ==
    IF prop.name = "" THEN [prop EXCEPT !.name = property_name] ELSE prop

\* a loop over the bases that never compares their property names
RECURSIVE BasesLoopUnchecked(_, _, _)
BasesLoopUnchecked(bases, defined, properties) ==
    IF bases = <<>> THEN [exc |-> "ok", defined |-> defined, properties |-> properties]
    ELSE BasesLoopUnchecked(Tail(bases), defined \cup DOMAIN Head(bases).props,
                            dict_update(properties, Head(bases).props))

\* for base in bases: ...
RECURSIVE BasesLoop(_, _, _)
BasesLoop(bases, defined, properties) ==
    IF bases = <<>> THEN [exc |-> "ok", defined |-> defined, properties |-> properties]
    ELSE IF defined \cap DOMAIN Head(bases).props # {}
         THEN [exc |-> "DuplicatePropertyError", defined |-> defined, properties |-> properties]
         ELSE BasesLoop(Tail(bases), defined \cup DOMAIN Head(bases).props,
                        dict_update(properties, Head(bases).props))

\* is the attribute of the class body turned into a descriptor
IsField(attr_name, attr) ==
    \/ attr.isprop
    \/ /\ MAP_TYPES_PROPERTIES(attr.v) # "none"
       /\ ~StartsWithUnderscore(attr_name)
       /\ attr_name \notin {"doc_type", "type"}

\* for attr_name, attr in attrs.items(): ...
RECURSIVE AttrsLoop(_, _, _, _)
AttrsLoop(names, attrs, defined, properties) ==
    IF names = <<>> THEN [exc |-> "ok", properties |-> properties]
    ELSE Bind(attrs[Head(names)], LAMBDA attr :
         IF ~IsField(Head(names), attr) THEN AttrsLoop(Tail(names), attrs, defined, properties)
         ELSE IF Head(names) \in _RESERVED_WORDS
              THEN [exc |-> "ReservedWordError", properties |-> properties]
         ELSE IF Head(names) \in defined
              THEN [exc |-> "DuplicatePropertyError", properties |-> properties]
         ELSE AttrsLoop(Tail(names), attrs, defined,
                        MapPut(properties, Head(names),
                               Property__property_config__(
                                   IF attr.isprop THEN attr
                                   ELSE Prop(MAP_TYPES_PROPERTIES(attr.v), "", FALSE, <<>>,
                                             attr.v, "none"),
                                   Head(names)))))

\* the descriptors found as attributes of the new class: its own, then
\* those of its bases in order, an own attribute of any kind hiding an
\* inherited one
RECURSIVE InheritedDesc(_)
InheritedDesc(bases) ==
    IF bases = <<>> THEN EmptyMap
    ELSE dict_update(InheritedDesc(Tail(bases)), Head(bases).desc)

SchemaProperties__new__(bases, attrs) ==
    Bind(BasesLoop(bases, {}, EmptyMap), LAMBDA b :
        IF b.exc # "ok" THEN [exc |-> b.exc]
        ELSE Bind(AttrsLoop(KeysOf(attrs), attrs, b.defined, b.properties), LAMBDA a :
                 IF a.exc # "ok" THEN [exc |-> a.exc]
                 ELSE [exc |-> "ok",
                       props |-> a.properties,
                       desc |-> [k \in ((DOMAIN InheritedDesc(bases)) \ (DOMAIN attrs))
                                        \cup {n \in DOMAIN attrs : IsField(n, attrs[n])} |->
                                   IF k \in DOMAIN attrs THEN a.properties[k]
                                   ELSE InheritedDesc(bases)[k]]]))

\* DocumentSchema.clone(self, **kwargs): the new instance becomes
\* docs[Len(docs) + 1]
RECURSIVE CloneDeclared(_, _, _, _)
CloneDeclared(w, i, names, kwargs) ==
    IF names = <<>> THEN kwargs
    ELSE Bind(w.heap[w.docs[i]._doc.a].m, LAMBDA doc :
             CloneDeclared(w, i, Tail(names),
                 IF Head(names) \in DOMAIN doc                   \* except KeyError: pass
                 THEN MapPut(kwargs, Head(names), Deep(w.heap, doc[Head(names)]))
                 ELSE kwargs))

DocumentSchema_clone(w, i, kwargs) ==
    Bind(CloneDeclared(w, i, KeysOf(w.cls.props), kwargs), LAMBDA kw1 :
    Bind(dict_update(kw1, [k \in DOMAIN w.docs[i].dyn |->
                              Deep(w.heap, w.docs[i].dyn[k])]), LAMBDA kw2 :
    Bind(DocumentSchema__init__(w, kw2), LAMBDA c :               \* type(self)(** kwargs)
        IF c.exc # "ok" THEN c
        ELSE WRet([c.w EXCEPT !.docs[Len(w.docs) + 1]._doc = w.docs[i]._doc],
                  None))))

-----------------------------------------------------------------------------
(* client.py: the database, as far as a document sees it.  store.revs is   *)
(* the revision number stored under each id, store.uuid counts the ids the *)
(* server has handed out, store.sent lists the bodies received during the  *)
(* current call.                                                           *)

Rev(n) == [t |-> "str", fmt |-> "rev", n |-> n]
UuidName(n) == <<"u1", "u2", "u3", "u4">>[n]

\* one document as the server treats it: the body is accepted when its _rev
\* is the stored one, and the answer carries the next revision
Accepts(revs, body) ==
    LET id == body.m["_id"].s
        current == IF id \in DOMAIN revs THEN revs[id] ELSE 0
        given == IF "_rev" \in DOMAIN body.m THEN body.m["_rev"].n ELSE 0
    IN  [ok |-> current = given, id |-> id, rev |-> current + 1]

\* the head of Database.save_doc and of Database.bulk_save: a doc without
\* _id gets one from server.next_uuid()
AssignId(w, doc) ==
    IF "_id" \in DOMAIN w.heap[doc.a].m THEN w
    ELSE [w EXCEPT !.heap = SetItem(w.heap, doc, StrV("_id"),
                                    StrV(UuidName(w.store.uuid + 1))).h,
                   !.store.uuid = w.store.uuid + 1]

\* a save_doc that leaves the caller's dict as it was posted
Database_save_doc_unmerged(w, doc) ==
    Bind(AssignId(w, doc), LAMBDA w1 :
    Bind(Deep(w1.heap, doc), LAMBDA body :
    Bind([w1 EXCEPT !.store.sent = Append(w1.store.sent, body)], LAMBDA w2 :
    Bind(Accepts(w2.store.revs, body), LAMBDA a :
        IF ~a.ok THEN WExc(w2, "ResourceConflict")
        ELSE WRet([w2 EXCEPT !.store.revs = MapPut(w2.store.revs, a.id, a.rev)], None)))))

\* Database.save_doc(doc)
Database_save_doc(w, doc) ==
    Bind(AssignId(w, doc), LAMBDA w1 :
    Bind(Deep(w1.heap, doc), LAMBDA body :
    Bind([w1 EXCEPT !.store.sent = Append(w1.store.sent, body)], LAMBDA w2 :
    Bind(Accepts(w2.store.revs, body), LAMBDA a :
        IF ~a.ok THEN WExc(w2, "ResourceConflict")
        ELSE Bind(UpdateOne(w2.heap, doc, StrV("_id"), StrV(a.id)).h, LAMBDA h1 :
             Bind(UpdateOne(h1, doc, StrV("_rev"), Rev(a.rev)).h, LAMBDA h2 :
                 WRet([w2 EXCEPT !.heap = h2,
                                 !.store.revs = MapPut(w2.store.revs, a.id, a.rev)], None)))))))

\* DocumentBase.save(self)
DocumentBase_save(w, i) ==
    Bind(DocumentSchema_validate(w, i, TRUE), LAMBDA v :
    IF v.exc # "ok" THEN v
    ELSE IF ~v.w.cls.db THEN WExc(v.w, "TypeError")
    ELSE Bind(DocumentSchema_to_json(v.w, i), LAMBDA j :
             Database_save_doc(j.w, j.w.docs[i]._doc)))

\* Database.get(docid, wrapper=wrapper): the wrapper receives a dict parsed
\* from the server's answer
Database_get(w, docid) ==
    IF docid \notin DOMAIN w.store.bodies THEN WExc(w, "ResourceNotFound")
    ELSE Bind(Build(w.heap, w.store.bodies[docid]), LAMBDA b :
             DocumentSchema_wrap([w EXCEPT !.heap = b.h], b.v))

\* DocumentBase.get(cls, docid)
DocumentBase_get(w, docid) ==
    Bind([w EXCEPT !.cls.allow = TRUE], LAMBDA w1 :      \* dynamic_properties=True
        IF ~w1.cls.db THEN WExc(w1, "TypeError")
        ELSE Database_get(w1, docid))

\* DocumentBase.get(cls, docid, dynamic_properties=dynamic_properties)
DocumentBase_get_kw(w, docid, dynamic_properties) ==
    Bind([w EXCEPT !.cls.allow = dynamic_properties], LAMBDA w1 :
        IF ~w1.cls.db THEN WExc(w1, "TypeError")
        ELSE Database_get(w1, docid))

\* obj = cls(); obj._id = docid; obj.save() of DocumentBase.get_or_create
Create(w, docid) ==
    Bind(DocumentSchema__init__(w, EmptyMap), LAMBDA c :
        IF c.exc # "ok" THEN c
        ELSE Bind(IF docid = None THEN c
                  ELSE DocumentSchema__setattr__(c.w, Len(w.docs) + 1, "_id", docid), LAMBDA s :
                 IF s.exc # "ok" THEN s ELSE DocumentBase_save(s.w, Len(w.docs) + 1)))

\* DocumentBase.get_or_create(cls, docid, dynamic_properties=dynamic_properties)
DocumentBase_get_or_create(w, docid, dynamic_properties) ==
    Bind([w EXCEPT !.cls.allow = dynamic_properties], LAMBDA w1 :
        IF ~w1.cls.db THEN WExc(w1, "TypeError")
        ELSE IF docid = None THEN Create(w1, None)
        ELSE Bind(Database_get(w1, docid.s), LAMBDA g :
                 IF g.exc = "ResourceNotFound" THEN Create(w1, docid) ELSE g))

\* default_wrapper of QueryMixin.__view on the rows of a view that emits
\* (doc._id, doc) for every document, the results iterated to the end and
\* not kept
RECURSIVE default_wrapper(_, _, _)
default_wrapper(w, ids, dynamic_properties) ==
    IF ids = <<>> THEN WRet(w, None)
    ELSE Bind([w EXCEPT !.cls.allow = dynamic_properties], LAMBDA w1 :
         Bind(Build(w1.heap, w1.store.bodies[Head(ids)]), LAMBDA b :
         Bind(DocumentSchema_wrap([w1 EXCEPT !.heap = b.h], b.v), LAMBDA r :
             IF r.exc # "ok" THEN r
             ELSE default_wrapper([r.w EXCEPT !.docs = w.docs], Tail(ids), dynamic_properties))))

\* the ids the store may hold, in the order of the view
StoreIds == <<"d", "u1", "u2", "u3", "u4">>

\* QueryMixin.view(cls, view_name, dynamic_properties=dynamic_properties)
QueryMixin_view(w, dynamic_properties) ==
    IF ~w.cls.db THEN WExc(w, "TypeError")                        \* cls.get_db()
    ELSE default_wrapper(w, SelectSeq(StoreIds, LAMBDA id : id \in DOMAIN w.store.bodies),
                         dynamic_properties)

\* Database.delete_doc(doc) for a document id: the revision deleted is the
\* one a HEAD request has just returned
Database_delete_doc(w, docid) ==
    IF docid \notin DOMAIN w.store.revs THEN WExc(w, "ResourceNotFound")
    ELSE WRet([w EXCEPT !.store.revs = MapDel(w.store.revs, docid)], None)

\* DocumentBase.delete(self)
DocumentBase_delete(w, i) ==
    IF ~w.cls.db THEN WExc(w, "TypeError")
    ELSE IF DocGet(w, i, "_rev") = None THEN WExc(w, "TypeError")    \* new_document
    ELSE Bind(Database_delete_doc(w, DocGet(w, i, "_id").s), LAMBDA r :
             IF r.exc # "ok" THEN r
             ELSE Bind(DelItem(r.w.heap, r.w.docs[i]._doc, StrV("_id")), LAMBDA d1 :
                  IF d1.exc # "ok" THEN Lift(r.w, d1)
                  ELSE Lift(r.w, DelItem(d1.h, r.w.docs[i]._doc, StrV("_rev")))))

\* Database.bulk_save(docs): ids are assigned, all bodies are posted, then
\* each doc is updated from its result; the result of a rejected doc has no
\* 'rev'
RECURSIVE AssignIds(_, _), BulkUpdate(_, _)
AssignIds(w, ds) ==
    IF ds = <<>> THEN w ELSE AssignIds(AssignId(w, Head(ds)), Tail(ds))
BulkUpdate(w, ds) ==
    IF ds = <<>> THEN WRet(w, None)
    ELSE Bind(Accepts(w.store.revs, Deep(w.heap, Head(ds))), LAMBDA a :
         IF ~a.ok THEN WExc(w, "KeyError")
         ELSE Bind(UpdateOne(w.heap, Head(ds), StrV("_rev"), Rev(a.rev)).h, LAMBDA h1 :
                  BulkUpdate([w EXCEPT !.heap = h1,
                                       !.store.revs = MapPut(w.store.revs, a.id, a.rev)],
                             Tail(ds))))
Database_bulk_save(w, ds) ==
    Bind(AssignIds(w, ds), LAMBDA w1 :
        BulkUpdate([w1 EXCEPT !.store.sent = [k \in DOMAIN ds |-> Deep(w1.heap, ds[k])]], ds))

\* DocumentBase.bulk_save(cls, docs): neither validate nor to_json is called
DocumentBase_bulk_save(w, ids) ==
    IF ~w.cls.db THEN WExc(w, "TypeError")
    ELSE Database_bulk_save(w, [k \in DOMAIN ids |-> w.docs[ids[k]]._doc])

-----------------------------------------------------------------------------
(* Garbage collection.  After a call returns, the objects no longer        *)
(* reachable from a document, its dynamic properties or a variable of the  *)
(* caller are gone; the live ones are numbered in the order a traversal    *)
(* from those roots meets them, so that a state does not depend on         *)
(* allocation history.                                                     *)

AddrsOf(vals) == [j \in DOMAIN SelectSeq(vals, IsRef) |-> SelectSeq(vals, IsRef)[j].a]

ItemsOf(o) ==
    IF o.k \in {"dict", "LazyDict"}
    THEN [j \in DOMAIN KeysOf(o.m) |-> o.m[KeysOf(o.m)[j]]]
    ELSE o.s

Children(o) ==
    AddrsOf(ItemsOf(o) \o (IF o.k \in {"LazyDict", "LazyList"} THEN <<o.doc>> ELSE <<>>))

RECURSIVE Trace(_, _, _)
Trace(h, todo, seen) ==
    IF todo = <<>> THEN seen
    ELSE IF Head(todo) \in Range(seen) THEN Trace(h, Tail(todo), seen)
    ELSE Trace(h, Children(h[Head(todo)]) \o Tail(todo), Append(seen, Head(todo)))

RECURSIVE Flatten(_)
Flatten(ss) == IF ss = <<>> THEN <<>> ELSE Head(ss) \o Flatten(Tail(ss))

\* the configured defaults of a class's descriptors
Defaults(c) ==
    [j \in DOMAIN KeysOf(c.desc) |-> c.desc[KeysOf(c.desc)[j]].default]

Roots(ds, hd, c) ==
    AddrsOf(Flatten([i \in DOMAIN ds |->
                       <<ds[i]._doc>> \o ItemsOf(DictObj(ds[i].dyn))
                                      \o ItemsOf(DictObj(ds[i].attrs))]) \o hd
            \o Defaults(c))

Moved(order, v) ==
    IF IsRef(v) THEN Ref(CHOOSE j \in DOMAIN order : order[j] = v.a) ELSE v

MovedObj(order, o) ==
    CASE o.k = "dict" -> DictObj([k \in DOMAIN o.m |-> Moved(order, o.m[k])])
      [] o.k = "list" -> ListObj([j \in DOMAIN o.s |-> Moved(order, o.s[j])])
      [] o.k = "LazyDict" ->
            LazyDictObj([k \in DOMAIN o.m |-> Moved(order, o.m[k])], Moved(order, o.doc))
      [] o.k = "LazyList" ->
            LazyListObj([j \in DOMAIN o.s |-> Moved(order, o.s[j])], Moved(order, o.doc))

MovedProps(order, props) ==
    [k \in DOMAIN props |->
        IF props[k].isprop
        THEN [props[k] EXCEPT !.default = Moved(order, props[k].default)]
        ELSE props[k]]

Collect(w, hd) ==
    Bind(Trace(w.heap, Roots(w.docs, hd, w.cls), <<>>), LAMBDA order :
    [heap |-> [j \in DOMAIN order |-> MovedObj(order, w.heap[order[j]])],
     docs |-> [i \in DOMAIN w.docs |->
                 [_doc |-> Moved(order, w.docs[i]._doc),
                  dyn |-> [k \in DOMAIN w.docs[i].dyn |-> Moved(order, w.docs[i].dyn[k])],
                  attrs |-> [k \in DOMAIN w.docs[i].attrs |-> Moved(order, w.docs[i].attrs[k])]]],
     held |-> [j \in DOMAIN hd |-> Moved(order, hd[j])],
     cls |-> [w.cls EXCEPT !.desc = MovedProps(order, w.cls.desc),
                           !.props = MovedProps(order, w.cls.props)]])

-----------------------------------------------------------------------------
(* The caller.  Each action is one call made from outside: its outcome r   *)
(* = [w, v, exc] becomes the next state, and last records the call.        *)

\* the world a call starts from
World == [heap |-> heap, docs |-> docs, cls |-> cls,
          store |-> [store EXCEPT !.sent = <<>>]]

Call(op, i, key, value) ==
    [op |-> op, doc |-> i, key |-> key, value |-> value]

\* the call's record once it has returned: before is what the caller could
\* see in the place the call is about just before it, ret what it returned
Done(call, r, before) ==
    [op |-> call.op, doc |-> call.doc, key |-> call.key, value |-> call.value,
     exc |-> r.exc, ret |-> AsLiteral(r.w.heap, r.v), before |-> before]

Commit(call, r, hd, before) ==
    \E c \in {Collect(r.w, hd)} :
    /\ heap' = c.heap
    /\ docs' = c.docs
    /\ held' = c.held
    /\ cls' = c.cls
    /\ store' = r.w.store
    /\ last' = Done(call, r, before)

\* is the wrapper's node the JSON form of the wrapper's contents
InSync(h, self) ==
    value_to_json(Deep(h, self)) = Deep(h, h[self.a].doc)

IsLazyDict(h, v) == IsRef(v) /\ h[v.a].k = "LazyDict"
IsLazyList(h, v) == IsRef(v) /\ h[v.a].k = "LazyList"

\* Bounds of the exploration
MaxLen == 1          \* longest list a caller builds by append
MaxRev == 2          \* highest revision the store reaches
MaxUuid == 1         \* ids the server hands out

Names == {"s", "l", "x"}
Slots == {1, 2}
ItemKeys == {"a"}

\* the class under test:
\*   class A(Document):            (or StaticDocument when ~allow)
\*       s = StringProperty(required=True)
\*       l = ListProperty()
Declared ==
    [k \in {"s", "l"} |->
        IF k = "s" THEN Prop("String", "s", TRUE, <<>>, None, "none")
                   ELSE Prop("List", "l", FALSE, <<>>, None, "none")]

Shape(allow, db) == [desc |-> Declared, props |-> Declared, allow |-> allow, db |-> db]

Object == [t |-> "object"]

\* values a caller assigns to an attribute
AttrValues(key) ==
    CASE key = "s" -> {None, StrV(""), StrV("a")}
      [] key = "l" -> {EmptyList, ListV(<<ListV(<<IntV(1)>>)>>), IntV(1)}
      [] OTHER -> {DateTime(1, 5), ListV(<<IntV(1)>>), Object}

\* values a caller puts into a container
ItemValues == {DateTime(1, 5), EmptyDict, EmptyList}
ListValues == {DateTime(1, 5), EmptyList}

\* keyword arguments of the constructor
Kwargs ==
    {EmptyMap, [k \in {"s"} |-> StrV("a")], [k \in {"x"} |-> ListV(<<IntV(1)>>)]}

NoStore == [revs |-> [k \in {} |-> 0], uuid |-> 0, sent |-> <<>>]

Init ==
    \E allow \in BOOLEAN, kw \in Kwargs :
        LET w0 == [heap |-> <<>>, docs |-> <<>>, cls |-> Shape(allow, TRUE), store |-> NoStore]
        IN  \E r \in {DocumentSchema__init__(w0, kw)} : \E c \in {Collect(r.w, <<None, None>>)} :
            /\ r.exc = "ok"
            /\ heap = c.heap
            /\ docs = c.docs
            /\ held = c.held
            /\ cls = r.w.cls
            /\ store = r.w.store
            /\ last = Done(Call("__init__", 1, "", DictV(kw)), r, None)

\* a = A(**kw): the variable is rebound when the constructor returns
Construct(kw) ==
    LET call == Call("__init__", 1, "", DictV(kw)) IN
    \E r \in {DocumentSchema__init__([World EXCEPT !.docs = <<>>], kw)} :
        IF r.exc = "ok" THEN Commit(call, r, held, None)
        ELSE Commit(call, WExc(World, r.exc), held, None)

\* a.key = value
SetAttr(i, key, value) ==
    Commit(Call("__setattr__", i, key, value),
           DocumentSchema__setattr__(World, i, key, value), held,
           AsLiteral(heap, DocGet(World, i, key)))

\* a.key, the result kept in a variable when it is a container
ReadAttr(i, key, slot) ==
    \E r \in {GetAttr(World, i, key)} :
    Commit(Call("__getattr__", i, key, None), r,
           IF r.exc = "ok" /\ IsRef(r.v) /\ slot \in Slots
           THEN [held EXCEPT ![slot] = r.v] ELSE held,
           AsLiteral(heap, DocGet(World, i, key)))

\* del a.key
DelAttr(i, key) ==
    Commit(Call("__delattr__", i, key, None),
           DocumentSchema__delattr__(World, i, key), held,
           AsLiteral(heap, DocGet(World, i, key)))

\* a.save()
Save(i) ==
    /\ store.uuid < MaxUuid
    /\ \A k \in DOMAIN store.revs : store.revs[k] < MaxRev
    /\ Commit(Call("save", i, "", None), DocumentBase_save(World, i), held,
              Deep(heap, docs[i]._doc))

\* A.bulk_save([a])
BulkSave(i) ==
    /\ store.uuid < MaxUuid
    /\ \A k \in DOMAIN store.revs : store.revs[k] < MaxRev
    /\ Commit(Call("bulk_save", i, "", None), DocumentBase_bulk_save(World, <<i>>), held,
              Deep(heap, docs[i]._doc))

\* Calls on a wrapper the caller holds in variable slot.  before tells
\* whether the wrapper and its node agreed when the call was made.
OnWrapper(op, slot, key, value, r) ==
    Commit(Call(op, slot, key, value), Lift(World, r), held, BoolV(InSync(heap, held[slot])))

\* w[key] = value on a LazyDict
DictSetItem(slot, key, value) ==
    /\ IsLazyDict(heap, held[slot])
    /\ OnWrapper("LazyDict.__setitem__", slot, key, value,
                 LazyDict__setitem__(heap, held[slot], StrV(key), value))

\* del w[key]
DictDelItem(slot, key) ==
    /\ IsLazyDict(heap, held[slot])
    /\ OnWrapper("LazyDict.__delitem__", slot, key, None,
                 LazyDict__delitem__(heap, held[slot], StrV(key)))

\* w.pop(key)
DictPop(slot, key) ==
    /\ IsLazyDict(heap, held[slot])
    /\ OnWrapper("LazyDict.pop", slot, key, None,
                 LazyDict_pop(heap, held[slot], StrV(key)))

\* w.update({key: value})
DictUpdate(slot, key, value) ==
    /\ IsLazyDict(heap, held[slot])
    /\ OnWrapper("LazyDict.update", slot, key, value,
                 LazyDict_update(heap, held[slot], DictV([k \in {key} |-> value])))

\* w.clear()
DictClear(slot) ==
    /\ IsLazyDict(heap, held[slot])
    /\ OnWrapper("LazyDict.clear", slot, "", None, LazyDict_clear(heap, held[slot]))

\* w[index] = value on a LazyList
ListSetItem(slot, index, value) ==
    /\ IsLazyList(heap, held[slot])
    /\ OnWrapper("LazyList.__setitem__", slot, IndexKey(index), value,
                 LazyList__setitem__(heap, held[slot], index, value))

\* del w[index]
ListDelItem(slot, index) ==
    /\ IsLazyList(heap, held[slot])
    /\ OnWrapper("LazyList.__delitem__", slot, IndexKey(index), None,
                 LazyList__delitem__(heap, held[slot], index))

\* w.append(value)
ListAppend(slot, value) ==
    /\ IsLazyList(heap, held[slot])
    /\ Len(heap[held[slot].a].s) < MaxLen
    /\ IsListObj(heap, heap[held[slot].a].doc) =>
          Len(heap[heap[held[slot].a].doc.a].s) < MaxLen
    /\ OnWrapper("LazyList.append", slot, "", value,
                 LazyList_append(heap, held[slot], value))

\* w.pop()
ListPop(slot) ==
    /\ IsLazyList(heap, held[slot])
    /\ OnWrapper("LazyList.pop", slot, "", None, LazyList_pop(heap, held[slot]))

\* Spec: the calls made on the document itself
Next ==
    \/ \E kw \in Kwargs : Construct(kw)
    \/ \E key \in Names : \E value \in AttrValues(key) : SetAttr(1, key, value)
    \/ \E key \in Names : ReadAttr(1, key, 0)
    \/ \E key \in Names : DelAttr(1, key)
    \/ Save(1)
    \/ BulkSave(1)

Spec == Init /\ [][Next]_vars

\* SpecLazy: the calls made on the containers read from a document of
\*   class B(Document):
\*       d = DictProperty()        (or l = ListProperty())
InitLazy ==
    \E key \in {"d", "l"} :
        LET fields == [k \in {key} |->
                         Prop(IF key = "d" THEN "Dict" ELSE "List", key, FALSE, <<>>,
                              None, "none")]
            w0 == [heap |-> <<>>, docs |-> <<>>, store |-> NoStore,
                   cls |-> [desc |-> fields, props |-> fields, allow |-> TRUE, db |-> TRUE]]
        IN  \E r \in {DocumentSchema__init__(w0, EmptyMap)} : \E c \in {Collect(r.w, <<None, None>>)} :
            /\ heap = c.heap
            /\ docs = c.docs
            /\ held = c.held
            /\ cls = r.w.cls
            /\ store = r.w.store
            /\ last = Done(Call("__init__", 1, "", EmptyDict), r, None)

NextLazy ==
    \/ \E key \in DOMAIN cls.desc, slot \in Slots : ReadAttr(1, key, slot)
    \/ \E slot \in Slots, key \in ItemKeys, value \in ItemValues : DictSetItem(slot, key, value)
    \/ \E slot \in Slots, key \in ItemKeys : DictDelItem(slot, key)
    \/ \E slot \in Slots, key \in ItemKeys : DictPop(slot, key)
    \/ \E slot \in Slots, key \in ItemKeys, value \in ItemValues : DictUpdate(slot, key, value)
    \/ \E slot \in Slots : DictClear(slot)
    \/ \E slot \in Slots, index \in 0..(MaxLen - 1), value \in ListValues :
          ListSetItem(slot, index, value)
    \/ \E slot \in Slots, index \in 0..(MaxLen - 1) : ListDelItem(slot, index)
    \/ \E slot \in Slots, value \in ListValues : ListAppend(slot, value)
    \/ \E slot \in Slots : ListPop(slot)

SpecLazy == InitLazy /\ [][NextLazy]_vars

\* no call takes a path the model does not follow
Modelled == last.exc # "Unmodelled"

-----------------------------------------------------------------------------
(* SpecValidate: Property.validate as a function of the descriptor's       *)
(* configuration and of its arguments.  The initial state holds the        *)
(* arguments of one call, Validate makes the call.                         *)

Kinds == {"String", "Integer", "Float", "Boolean", "Decimal",
          "DateTime", "Date", "Time", "Dict", "List"}

ChoiceLists == {<<>>, <<StrV("a"), StrV("b")>>, <<IntV(1), IntV(2)>>,
                <<BoolV(FALSE), BoolV(TRUE)>>}

ValidateValues ==
    {None, StrV(""), StrV("a"), StrV("b"), IntV(0), IntV(1), IntV(2),
     FloatV(0), FloatV(1), FloatV(2), BoolV(FALSE), BoolV(TRUE), Decimal(0), Decimal(1),
     DateTime(1, 5), Date(1), Time(0, 0), Time(1, 0),
     EmptyList, ListV(<<IntV(1)>>), EmptyDict, DictV([k \in {"a"} |-> IntV(1)])}

InitValidate ==
    /\ heap = <<>>
    /\ docs = <<>>
    /\ held = <<None, None>>
    /\ cls = Shape(TRUE, TRUE)
    /\ store = NoStore
    /\ \E kind \in Kinds, req \in BOOLEAN, choices \in ChoiceLists,
          value \in ValidateValues, required \in BOOLEAN :
          last = [op |-> "args", prop |-> Prop(kind, "p", req, choices, None, "none"),
                  value |-> value, required |-> required,
                  exc |-> "ok", msg |-> "", ret |-> None]

\* prop.validate(value, required=required)
Validate ==
    /\ last.op = "args"
    /\ \E r \in {validate(last.prop, last.value, last.required)} :
          last' = [last EXCEPT !.op = "validate", !.exc = r.exc, !.msg = r.msg, !.ret = r.v]
    /\ UNCHANGED <<heap, docs, cls, held, store>>

SpecValidate == InitValidate /\ [][Validate]_vars

\* the values the kind of a descriptor counts as empty, as documented
DocumentedEmpty(kind, value) ==
    IF kind \in {"Integer", "Float", "Boolean"} THEN value = None ELSE ~Truthy(value)

\* the value is one the kind accepts when no choices are configured
OfKind(kind, value) ==
    validate(Prop(kind, "p", FALSE, <<>>, None, "none"), value, FALSE).exc = "ok"

\* C8: validate(value, required=True) on a required descriptor fails with
\* "is required" exactly when the value is empty, where the integer, float
\* and boolean kinds count only None as empty and the other kinds count any
\* falsy value.
C8_RequiredExactlyWhenEmpty ==
    (last.op = "validate" /\ last.required /\ last.prop.required
        /\ OfKind(last.prop.kind, last.value))
        => ((last.exc = "BadValueError" /\ last.msg = "required")
               <=> DocumentedEmpty(last.prop.kind, last.value))

\* C9: with a non-empty choices collection, validation of a non-empty value
\* succeeds when the value equals any element of choices, whatever its
\* position, and fails with BadValueError when it equals none of them.
C9_AnyChoiceAccepted ==
    (last.op = "validate" /\ last.prop.choices # <<>> /\ Truthy(last.value)
        /\ OfKind(last.prop.kind, last.value))
        => IF \E j \in DOMAIN last.prop.choices : PyEq(last.prop.choices[j], last.value)
           THEN last.exc = "ok"
           ELSE last.exc = "BadValueError"

-----------------------------------------------------------------------------
(* SpecLazy: the containers *)

Mutations == {"LazyDict.__setitem__", "LazyDict.__delitem__", "LazyDict.pop",
              "LazyDict.update", "LazyDict.clear", "LazyList.__setitem__",
              "LazyList.__delitem__", "LazyList.append", "LazyList.pop"}

\* C1: after each single mutation made through a wrapper (set, delete,
\* append, update, clear, pop) that agreed with its canonical node, the
\* canonical node equals the JSON conversion of the wrapper's contents.
C1_SyncAfterEachMutation ==
    (last.op \in Mutations /\ last.before = BoolV(TRUE))
        => InSync(heap, held[last.doc])

\* C3: two wrappers read from the same declared field are bound to the same
\* canonical node, and a mutation made through one of them is visible in the
\* canonical document and through the other.
C3_MutationVisibleThroughOther ==
    \A a \in Slots, b \in Slots :
        (a # b /\ last.op \in Mutations /\ last.doc = a /\ last.exc = "ok"
            /\ IsRef(held[a]) /\ IsRef(held[b])
            /\ heap[held[a].a].doc = heap[held[b].a].doc)
        => /\ heap[held[a].a].doc = docs[1]._doc
              \/ heap[held[a].a].doc \in Range(heap[docs[1]._doc.a].m)
           /\ InSync(heap, held[a])
           /\ Deep(heap, held[b]) = Deep(heap, held[a])

-----------------------------------------------------------------------------
(* Spec: the document *)

\* the canonical value under key in document i, as a tree of values
Canonical(i, key) == AsLiteral(heap, DocGet([heap |-> heap, docs |-> docs], i, key))

\* the native conversion of a canonical value read through key: the
\* descriptor's for a declared scalar field, value_to_python otherwise
Native(key, value) ==
    IF value = None THEN Val(None)
    ELSE IF key \in DOMAIN cls.desc /\ cls.desc[key].kind \notin {"Dict", "List"}
         THEN to_python(cls.desc[key], value)
         ELSE Val(value_to_python(value))

\* C2: reading a declared or dynamic field returns exactly the native
\* conversion of the value stored under that key in the canonical document.
C2_ReadIsNativeOfCanonical ==
    (last.op = "__getattr__"
        /\ (last.key \in DOMAIN cls.desc \/ last.key \in DOMAIN docs[last.doc].dyn))
        => /\ last.exc = Native(last.key, last.before).exc
           /\ last.exc = "ok" => last.ret = Native(last.key, last.before).v
           /\ Canonical(last.doc, last.key) = last.before

\* the call assigned a non-empty list to the dynamic field x
AssignedDynamicList ==
    /\ cls.allow
    /\ \/ last.op = "__setattr__" /\ last.key = "x"
          /\ last.value.t = "list" /\ Truthy(last.value)
       \/ last.op = "__init__" /\ "x" \in DOMAIN last.value.m
          /\ last.value.m["x"].t = "list" /\ Truthy(last.value.m["x"])

AssignedList == IF last.op = "__init__" THEN last.value.m["x"] ELSE last.value

\* C4: assigning a non-empty list to a dynamic field, by attribute
\* assignment or by constructor keyword, stores the list's JSON form under
\* that key in the canonical document, and the field reads back equal to
\* the list.
C4_DynamicListStored ==
    AssignedDynamicList
        => /\ last.exc = "ok"
           /\ Canonical(1, "x") = value_to_json(AssignedList)
           /\ "x" \in DOMAIN docs[1].dyn
           /\ AsLiteral(heap, docs[1].dyn["x"]) = AssignedList

\* C6: every document handed to the store has a non-empty value for each
\* declared field whose descriptor is required.
C6_StoreReceivesRequired ==
    \A j \in DOMAIN store.sent :
        \A key \in DOMAIN cls.desc :
            cls.desc[key].required
                => /\ key \in DOMAIN store.sent[j].m
                   /\ ~Property_empty(cls.desc[key], store.sent[j].m[key])

\* C7: assigning an empty value to a required declared field raises nothing
\* at the assignment, and the save() that follows raises BadValueError
\* before any store call is made, leaving the document without _id and _rev.
C7_RequiredDeferredToSave ==
    [][ /\ (last'.op = "__setattr__" /\ last'.key = "s" /\ ~Truthy(last'.value))
           => last'.exc = "ok"
        /\ (last.op = "__setattr__" /\ last.key = "s" /\ ~Truthy(last.value)
              /\ last'.op = "save" /\ Canonical(1, "_id") = None)
           => /\ last'.exc = "BadValueError"
              /\ store'.sent = <<>>
              /\ "_id" \notin DOMAIN heap'[docs'[1]._doc.a].m
              /\ "_rev" \notin DOMAIN heap'[docs'[1]._doc.a].m ]_vars

\* what the descriptor of a declared field does with an assigned value
ThroughDescriptor(p, value) ==
    Bind(validate(p, value, FALSE), LAMBDA v :
        IF v.exc # "ok" THEN v ELSE to_json(p, v.v))

\* C10: assigning to a declared name always goes through that field's
\* descriptor (validated, converted, stored under the descriptor's key) and
\* never adds an entry to the dynamic registry.
C10_DeclaredThroughDescriptor ==
    (last.op = "__setattr__" /\ last.key \in DOMAIN cls.desc)
        => /\ last.exc = ThroughDescriptor(cls.desc[last.key], last.value).exc
           /\ last.exc = "ok" =>
                Canonical(last.doc, last.key)
                    = ThroughDescriptor(cls.desc[last.key], last.value).v
           /\ last.key \notin DOMAIN docs[last.doc].dyn

\* the dynamic-field registry of document 1, as a tree of values
Registry == [k \in DOMAIN docs[1].dyn |-> AsLiteral(heap, docs[1].dyn[k])]

\* hasattr(a, key)
HasName(key) == HasAttr(World, 1, key).v

\* C11: a rejected dynamic assignment (AttributeError for an undeclared name
\* on a shape without dynamic fields, TypeError for a value of a type that
\* is not allowed) raises at the assignment and leaves the canonical
\* document and the dynamic registry as they were; the name is no attribute
\* of the instance afterwards.
C11_RejectedDynamicUnchanged ==
    [][ (last'.op = "__setattr__" /\ last'.key \notin DOMAIN cls.desc
           /\ \/ ~cls.allow
              \/ last'.value.t = "object")
        => /\ last'.exc = IF ~cls.allow THEN "AttributeError" ELSE "TypeError"
           /\ Deep(heap, docs[1]._doc)' = Deep(heap, docs[1]._doc)
           /\ Registry' = Registry
           /\ \A key \in Names : (key = last'.key /\ ~HasName(key)) => ~HasName(key)' ]_vars

\* a value of no allowed type was assigned to the undeclared name x and
\* rejected
C11_Witness ==
    /\ last.op = "__setattr__"
    /\ last.key = "x"
    /\ last.value = Object
    /\ last.exc = "TypeError"
    /\ ~HasName("x")

-----------------------------------------------------------------------------
(* SpecWrap: an instance rebuilt from stored data, then assigned to.       *)
(*   class A(Document):            (or StaticDocument when ~allow)         *)
(*       l = ListProperty()                                                *)
(*       f = StringProperty(name="n")                                      *)
(*   a = A();  a = A.wrap(data);  a.l = [..];  a.x = {..};  a.to_json()    *)

WrapDeclaredFields ==
    [k \in {"l", "f"} |->
        IF k = "l" THEN Prop("List", "l", FALSE, <<>>, None, "none")
                   ELSE Prop("String", "n", FALSE, <<>>, None, "none")]

\* the documents a caller hands to wrap: each key is absent or holds one of
\* the values a store can return for it
WrapChoices(key) ==
    CASE key = "doc_type" -> {StrV("A"), StrV("B")}
      [] key = "l" -> {ListV(<<IntV(1)>>)}
      [] key = "n" -> {StrV("a")}
      [] OTHER -> {None, StrV("a"), DictV([k \in {"a"} |-> IntV(1)]),
                   ListV(<<IntV(1), IntV(3)>>)}
WrapData ==
    UNION {{m \in [keys -> UNION {WrapChoices(k) : k \in keys}] :
                \A k \in keys : m[k] \in WrapChoices(k)} :
           keys \in SUBSET {"doc_type", "l", "n", "x"}}

\* values a caller assigns to a list or map field
WrapAttrValues(key) ==
    IF key = "l" THEN {EmptyList, ListV(<<IntV(2)>>)}
    ELSE {EmptyDict, DictV([k \in {"b"} |-> IntV(2)]), ListV(<<IntV(2)>>)}

InitWrap ==
    \E allow \in BOOLEAN :
        LET w0 == [heap |-> <<>>, docs |-> <<>>, store |-> NoStore,
                   cls |-> [desc |-> WrapDeclaredFields, props |-> WrapDeclaredFields,
                            allow |-> allow, db |-> TRUE]]
        IN  \E r \in {DocumentSchema__init__(w0, EmptyMap)} : \E c \in {Collect(r.w, <<None, None>>)} :
            /\ heap = c.heap
            /\ docs = c.docs
            /\ held = c.held
            /\ cls = r.w.cls
            /\ store = r.w.store
            /\ last = Done(Call("__init__", 1, "", EmptyDict), r, None)

\* a = A.wrap(data): the variable is rebound when wrap returns
Wrap(data) ==
    LET call == Call("wrap", 1, "", DictV(data)) IN
    \E b \in {Build(heap, DictV(data))} :
    \E r \in {DocumentSchema_wrap([World EXCEPT !.docs = <<>>, !.heap = b.h], b.v)} :
        IF r.exc = "ok" THEN Commit(call, r, held, None)
        ELSE Commit(call, WExc(World, r.exc), held, None)

\* a.to_json(): the canonical dict itself is returned
ToJson(i) ==
    \E r \in {DocumentSchema_to_json(World, i)} :
    Commit(Call("to_json", i, "", None), WRet(r.w, r.w.docs[i]._doc), held,
           Deep(heap, docs[i]._doc))

NextWrap ==
    \/ \E data \in WrapData : Wrap(data)
    \/ \E key \in {"l", "x"} : \E value \in WrapAttrValues(key) : SetAttr(1, key, value)
    \/ \E key \in {"l", "f", "n", "x"} : ReadAttr(1, key, 0)
    \/ ToJson(1)

SpecWrap == InitWrap /\ [][NextWrap]_vars

\* what a.key reads now, as a tree of values
ReadNow(key) ==
    Bind(GetAttr(World, 1, key), LAMBDA r :
        IF r.exc = "ok" THEN AsLiteral(r.w.heap, r.v) ELSE [t |-> "raised", exc |-> r.exc])

\* the last call assigned a list to a field holding a list, or a map to a
\* field holding a map
Reassigned ==
    /\ last.op = "__setattr__"
    /\ last.key \in DOMAIN cls.desc \/ cls.allow
    /\ last.value.t \in {"list", "dict"}
    /\ last.before.t = last.value.t

\* C12: after a list or map is assigned to a field that already holds a
\* list or map, the field reads equal to the assigned value and the
\* canonical document holds exactly the JSON form of the assigned value
\* under that key, nothing of the previous value remaining.
C12_ReassignReplaces ==
    Reassigned
        => /\ last.exc = "ok"
           /\ ReadNow(last.key) = last.value
           /\ Canonical(1, last.key) = value_to_json(last.value)

\* the canonical keys of the declared descriptors
CanonicalKeys == {cls.desc[a].name : a \in DOMAIN cls.desc}

\* keys never treated as fields
ReservedKeys == {"_id", "_rev", "_attachments", "doc_type"}

\* C13: after wrap(data) on a shape that allows dynamic fields, the
\* dynamic-field registry holds exactly the keys of data that are not the
\* canonical key of a declared descriptor, are not reserved and hold a
\* non-null value.
C13_WrapRegistersUnclaimedKeys ==
    (last.op = "wrap" /\ last.exc = "ok" /\ cls.allow)
        => DOMAIN docs[1].dyn
             = {k \in DOMAIN last.value.m :
                    /\ k \notin CanonicalKeys
                    /\ k \notin ReservedKeys
                    /\ last.value.m[k] # None}

\* the tag of the shape under test: class A declares no doc_type
ShapeTag == StrV("A")

\* C14: the canonical document carries doc_type equal to the shape's tag
\* after construction and after wrap, and so does the document returned by
\* to_json.
C14_DocTypeIsShapeTag ==
    /\ (last.op \in {"__init__", "wrap"} /\ last.exc = "ok")
          => Canonical(1, "doc_type") = ShapeTag
    /\ (last.op = "to_json" /\ last.exc = "ok")
          => /\ "doc_type" \in DOMAIN last.ret.m
             /\ last.ret.m["doc_type"] = ShapeTag

-----------------------------------------------------------------------------
(* SpecDeclare: shapes declared one from another, and instances of them.   *)
(*   class M(Document): s = StringProperty()                               *)
(*   class C(<bases>): <attrs>     bases among the shape declared last     *)
(*                                 and M;  then  a = C()                   *)

MaxAttrs == 2        \* attributes bound in one class body

Root == [desc |-> EmptyMap, props |-> EmptyMap, allow |-> TRUE, db |-> TRUE]

Mixin ==
    [desc |-> [k \in {"s"} |-> Prop("String", "s", FALSE, <<>>, None, "none")],
     props |-> [k \in {"s"} |-> Prop("String", "s", FALSE, <<>>, None, "none")],
     allow |-> TRUE, db |-> TRUE]

\* what a class body binds to a name
AttrChoices(key) ==
    CASE key = "s" -> {Prop("Decimal", "", FALSE, <<>>, Decimal(1), "none"),
                       Attr(StrV(""))}
      [] key = "l" -> {Prop("List", "", FALSE, <<>>, None, "none"),
                       Attr(ListV(<<IntV(1)>>))}
      [] OTHER -> {Prop("Dict", "", FALSE, <<>>, None, "none"),
                   Attr(DateTime(1, 5)),
                   Attr(Object)}
ClassBodies ==
    UNION {{m \in [keys -> UNION {AttrChoices(k) : k \in keys}] :
                \A k \in keys : m[k] \in AttrChoices(k)} :
           keys \in {ks \in SUBSET Names : Cardinality(ks) <= MaxAttrs}}

InitDeclare ==
    /\ heap = <<>>
    /\ docs = <<>>
    /\ held = <<None, None>>
    /\ cls = Root
    /\ store = NoStore
    /\ last = [op |-> "import", doc |-> 0, key |-> "", value |-> None,
               exc |-> "ok", ret |-> None, before |-> None]

\* class C(*bases): attrs -- C replaces the shape declared last when the
\* statement succeeds; no instance of C exists yet
Declare(bases, attrs) ==
    /\ bases = <<cls, Mixin>> => cls # Root         \* else no consistent MRO
    /\ \E r \in {SchemaProperties__new__(bases, attrs)} :
         /\ cls' = IF r.exc = "ok"
                   THEN [desc |-> r.desc, props |-> r.props, allow |-> TRUE, db |-> TRUE]
                   ELSE cls
         /\ docs' = IF r.exc = "ok" THEN <<>> ELSE docs
         /\ heap' = IF r.exc = "ok" THEN <<>> ELSE heap
         /\ last' = [op |-> "class", doc |-> 0, key |-> "",
                     value |-> [t |-> "class", bases |-> bases, attrs |-> attrs],
                     exc |-> r.exc, ret |-> None, before |-> None]
    /\ UNCHANGED <<held, store>>

NextDeclare ==
    \/ \E bases \in {<<cls>>, <<Mixin>>, <<cls, Mixin>>, <<Mixin, cls>>} :
       \E attrs \in ClassBodies : Declare(bases, attrs)
    \/ Construct(EmptyMap)

SpecDeclare == InitDeclare /\ [][NextDeclare]_vars

\* the JSON form of a descriptor's default
DefaultJson(p) ==
    IF p.default # None THEN value_to_json(p.default)
    ELSE CASE p.kind = "List" -> EmptyList
           [] p.kind = "Dict" -> EmptyDict
           [] OTHER -> None

\* the names a class body binds to a python literal of a supported type
Literals(attrs) == {n \in DOMAIN attrs : ~attrs[n].isprop /\ attrs[n].v # Object}

\* C15: an instance constructed without arguments has a canonical document
\* of exactly doc_type and, for each declared descriptor, inherited ones
\* included, the JSON form of its default (null without a default, an empty
\* list or map for the list and map kinds), and no dynamic field; a python
\* literal of a class body has become a descriptor with the literal as
\* default.
C15_EmptyInstanceHoldsDefaults ==
    /\ (last.op = "__init__" /\ last.value = EmptyDict)
          => /\ last.exc = "ok"
             /\ Deep(heap, docs[1]._doc)
                  = DictV([k \in {"doc_type"} \cup DOMAIN cls.props |->
                             IF k = "doc_type" THEN ShapeTag ELSE DefaultJson(cls.props[k])])
             /\ docs[1].dyn = EmptyMap
    /\ (last.op = "class" /\ last.exc = "ok")
          => \A n \in Literals(last.value.attrs) :
                /\ n \in DOMAIN cls.props
                /\ cls.props[n].isprop
                /\ cls.props[n].default = last.value.attrs[n].v

\* an instance of a shape with an inherited field, a list field without
\* default and a field made from a literal has just been constructed
C15_Witness ==
    /\ last.op = "__init__" /\ last.value = EmptyDict /\ last.exc = "ok"
    /\ DOMAIN cls.props = {"s", "l", "x"}
    /\ cls.props["l"].default = None
    /\ cls.props["x"].default = DateTime(1, 5)
    /\ Canonical(1, "l") = EmptyList
    /\ Canonical(1, "x") = IsoDateTime(1)

\* the field names a class statement declares itself, and whether a name
\* comes twice
OwnFields(attrs) == {n \in DOMAIN attrs : attrs[n].isprop \/ attrs[n].v # Object}
Collides(bases, attrs) ==
    \/ \E i, j \in DOMAIN bases :
          i < j /\ (DOMAIN bases[i].props) \cap (DOMAIN bases[j].props) # {}
    \/ \E i \in DOMAIN bases : OwnFields(attrs) \cap (DOMAIN bases[i].props) # {}

\* C16: a class statement raises DuplicatePropertyError when two of its
\* bases contribute the same field name or when it declares a name one of
\* its bases has; otherwise it succeeds and the descriptor map of the new
\* shape is the union of the maps of its bases and of its own declarations.
C16_DuplicateOrUnion ==
    last.op = "class"
        => IF Collides(last.value.bases, last.value.attrs)
           THEN last.exc = "DuplicatePropertyError"
           ELSE /\ last.exc = "ok"
                /\ DOMAIN cls.props
                     = UNION {DOMAIN last.value.bases[i].props : i \in DOMAIN last.value.bases}
                       \cup OwnFields(last.value.attrs)
                /\ \A i \in DOMAIN last.value.bases :
                     \A k \in DOMAIN last.value.bases[i].props :
                        cls.props[k] = last.value.bases[i].props[k]
                /\ \A n \in OwnFields(last.value.attrs) :
                     /\ cls.props[n].name = n
                     /\ last.value.attrs[n].isprop
                          => cls.props[n] = [last.value.attrs[n] EXCEPT !.name = n]

\* two bases with a common field name were refused
C16_Witness ==
    /\ last.op = "class"
    /\ last.exc = "DuplicatePropertyError"
    /\ Len(last.value.bases) = 2
    /\ "s" \in (DOMAIN last.value.bases[1].props) \cap (DOMAIN last.value.bases[2].props)
    /\ OwnFields(last.value.attrs) = {"x"}

-----------------------------------------------------------------------------
(* SpecConvert: one declared scalar field of each kind in turn.            *)
(*   class A(Document): f = <Kind>Property()                               *)
(*   a = A();  a.f = v;  a.f;  prop.to_python(prop.to_json(v))             *)

MaxN == 2            \* largest number, day and second of the values drawn

ConvertKinds == {"String", "Integer", "Boolean", "Decimal", "Date", "Time", "DateTime"}

\* the values of a kind
KindValues(kind) ==
    CASE kind = "String" -> {StrV(""), StrV("a"), IsoDate(1)}
      [] kind = "Integer" -> {IntV(n) : n \in 0..MaxN}
      [] kind = "Boolean" -> {BoolV(b) : b \in BOOLEAN}
      [] kind = "Decimal" -> {Decimal(n) : n \in 0..MaxN}
      [] kind = "Date" -> {Date(d) : d \in 0..MaxN}
      [] kind = "Time" -> {Time(sec, us) : sec \in 0..MaxN, us \in {0, 5}}
      [] OTHER -> {DateTime(sec, us) : sec \in 0..MaxN, us \in {0, 5}}

InitConvert ==
    \E kind \in ConvertKinds :
        LET fields == [k \in {"f"} |-> Prop(kind, "f", FALSE, <<>>, None, "none")]
            w0 == [heap |-> <<>>, docs |-> <<>>, store |-> NoStore,
                   cls |-> [desc |-> fields, props |-> fields, allow |-> TRUE, db |-> TRUE]]
        IN  \E r \in {DocumentSchema__init__(w0, EmptyMap)} : \E c \in {Collect(r.w, <<None, None>>)} :
            /\ heap = c.heap
            /\ docs = c.docs
            /\ held = c.held
            /\ cls = r.w.cls
            /\ store = r.w.store
            /\ last = Done(Call("__init__", 1, "", EmptyDict), r, None)

\* A.f.to_python(A.f.to_json(value)); before is the canonical form in between
Convert(value) ==
    \E j \in {to_json(cls.desc["f"], value)} :
    \E y \in {IF j.exc = "ok" THEN to_python(cls.desc["f"], j.v) ELSE j} :
        Commit(Call("convert", 1, "f", value),
               IF y.exc = "ok" THEN WRet(World, y.v) ELSE WExc(World, y.exc), held, j.v)

NextConvert ==
    \/ \E value \in KindValues(cls.desc["f"].kind) : Convert(value)
    \/ \E value \in KindValues(cls.desc["f"].kind) : SetAttr(1, "f", value)
    \/ ReadAttr(1, "f", 0)

SpecConvert == InitConvert /\ [][NextConvert]_vars

\* the canonical text of a date, a time or a datetime
IsoFormat(v) ==
    CASE v.t = "datetime" -> IsoDateTime(v.sec)      \* 'YYYY-MM-DDTHH:MM:SSZ'
      [] v.t = "date" -> IsoDate(v.d)                \* 'YYYY-MM-DD'
      [] v.t = "time" -> IsoTime(v.sec)              \* 'HH:MM:SS'

NoSubSecond(v) == v.t \in {"time", "datetime"} => v.us = 0

-----------------------------------------------------------------------------
(* SpecReload: a dynamic scalar field through the stored form and back.    *)
(*   class A(Document): pass                                               *)
(*   a = A();  v = ...;  a.x = v;  a = A.wrap(json(a.to_json()));  a.x     *)

\* the scalars a caller assigns; IsoDate(1) is a text that reads as a date
ScalarValues ==
    {StrV("a"), IsoDate(1), FloatV(1), Decimal(1), Date(1)}
        \cup {Time(sec, us) : sec \in {0, 1}, us \in {0, 5}}
        \cup {DateTime(1, us) : us \in {0, 5}}

InitReload ==
    LET w0 == [heap |-> <<>>, docs |-> <<>>, store |-> NoStore, cls |-> Root]
    IN  \E r \in {DocumentSchema__init__(w0, EmptyMap)} : \E c \in {Collect(r.w, <<None, None>>)} :
        /\ heap = c.heap
        /\ docs = c.docs
        /\ held = c.held
        /\ cls = r.w.cls
        /\ store = r.w.store
        /\ last = Done(Call("__init__", 1, "", EmptyDict), r, None)

\* v = value; a.x = v -- the caller keeps the value in its first variable
AssignScalar(value) ==
    \E r \in {DocumentSchema__setattr__(World, 1, "x", value)} :
    Commit(Call("__setattr__", 1, "x", value), r,
           IF r.exc = "ok" THEN [held EXCEPT ![1] = value] ELSE held,
           AsLiteral(heap, DocGet(World, 1, "x")))

\* a = A.wrap(data), data being what the store returns for a.to_json(): a
\* copy of the document made of JSON values
Reload ==
    \E j \in {DocumentSchema_to_json(World, 1)} :
    \E b \in {Build(j.w.heap, Deep(j.w.heap, j.w.docs[1]._doc))} :
    \E r \in {DocumentSchema_wrap([j.w EXCEPT !.docs = <<>>, !.heap = b.h], b.v)} :
        IF r.exc = "ok"
        THEN Commit(Call("reload", 1, "x", None), r, held, Deep(heap, docs[1]._doc))
        ELSE Commit(Call("reload", 1, "x", None), WExc(j.w, r.exc), held,
                    Deep(heap, docs[1]._doc))

NextReload ==
    \/ \E value \in ScalarValues : AssignScalar(value)
    \/ Reload
    \/ ReadAttr(1, "x", 0)
    \/ DelAttr(1, "x")

SpecReload == InitReload /\ [][NextReload]_vars

\* a value without its sub-second component
WholeSeconds(v) == IF v.t \in {"time", "datetime"} THEN [v EXCEPT !.us = 0] ELSE v

\* C18: a dynamic scalar field that was assigned a string, datetime, date,
\* time, decimal or float reads, on the instance rebuilt by wrap from the
\* to_json form, as a value of the same kind, equal to the assigned one up
\* to the dropped sub-second component.
C18_DynamicScalarRoundTrip ==
    (last.op = "reload" /\ "x" \in DOMAIN last.before.m)
        => /\ last.exc = "ok"
           /\ ReadNow("x").t = held[1].t
           /\ ReadNow("x") = WholeSeconds(held[1])

-----------------------------------------------------------------------------
(* SpecStore: two instances and the database.                              *)
(*   class A(Document): pass                                               *)
(*   a = A();  a.x = 1;  a.save();  b = A.get(a._id);  b.x = 2;  b.save()  *)
(*   a.save();  a.delete()                                                 *)
(* store.bodies is the document the server holds under each id.            *)

EmptyStore == [revs |-> [k \in {} |-> 0], uuid |-> 0, sent |-> <<>>,
               bodies |-> [k \in {} |-> None]]

\* the server's side of a call: the body of an accepted request is held
\* with its new revision, a deleted document is gone
Served(before, after) ==
    [after EXCEPT !.bodies =
        [id \in DOMAIN after.revs |->
            IF id \in DOMAIN before.revs /\ before.revs[id] = after.revs[id]
            THEN before.bodies[id]
            ELSE LET j == CHOOSE j \in DOMAIN after.sent : after.sent[j].m["_id"].s = id
                 IN  DictV(MapPut(after.sent[j].m, "_rev", Rev(after.revs[id])))]]

InitStore ==
    LET w0 == [heap |-> <<>>, docs |-> <<>>, store |-> EmptyStore, cls |-> Root]
    IN  \E r \in {DocumentSchema__init__(w0, EmptyMap)} : \E c \in {Collect(r.w, <<None, None>>)} :
        /\ heap = c.heap
        /\ docs = c.docs
        /\ held = c.held
        /\ cls = r.w.cls
        /\ store = r.w.store
        /\ last = Done(Call("__init__", 1, "", EmptyDict), r, None)

\* a call that reaches the server
OnStore(call, r, before) ==
    Commit(call, [r EXCEPT !.w.store = Served(store, r.w.store)], held, before)

\* a.save() or b.save()
StoreSave(i) ==
    /\ DocGet(World, i, "_id") = None => store.uuid < MaxUuid
    /\ \A k \in DOMAIN store.revs : store.revs[k] < MaxRev
    /\ OnStore(Call("save", i, "", None), DocumentBase_save(World, i),
               Deep(heap, docs[i]._doc))

\* a.delete() or b.delete()
StoreDelete(i) ==
    OnStore(Call("delete", i, "", None), DocumentBase_delete(World, i),
            Deep(heap, docs[i]._doc))

\* b = A.get(docid): the second variable is rebound when get returns
StoreGet(docid) ==
    \E r \in {DocumentBase_get([World EXCEPT !.docs = <<docs[1]>>], docid)} :
        IF r.exc = "ok" THEN OnStore(Call("get", 2, docid, None), r, None)
        ELSE OnStore(Call("get", 2, docid, None), WExc(World, r.exc), None)

NextStore ==
    \/ \E i \in DOMAIN docs : \E value \in {IntV(1), IntV(2)} : SetAttr(i, "x", value)
    \/ \E i \in DOMAIN docs : StoreSave(i)
    \/ \E i \in DOMAIN docs : StoreDelete(i)
    \/ \E n \in 1..MaxUuid : StoreGet(UuidName(n))

SpecStore == InitStore /\ [][NextStore]_vars

\* the canonical document of the instance the last call was made on
LastDoc == Deep(heap, docs[last.doc]._doc).m

\* C19: after a successful save the canonical document holds the _id and
\* the _rev the store answered and new_document is false; a save of an
\* instance that already held a _rev sent that _id and that _rev, and the
\* store holds no other document than before.
C19_SaveKeepsIdentity ==
    [][ (last'.op = "save" /\ last'.exc = "ok")
        => /\ {"_id", "_rev"} \subseteq DOMAIN LastDoc'
           /\ LastDoc'["_id"].s \in DOMAIN store'.revs
           /\ LastDoc'["_rev"] = Rev(store'.revs[LastDoc'["_id"].s])
           /\ DocGet(World, last.doc, "_rev")' # None           \* not new_document
           /\ "_rev" \in DOMAIN last'.before.m
                => /\ LastDoc'["_id"] = last'.before.m["_id"]
                   /\ Len(store'.sent) = 1
                   /\ store'.sent[1].m["_id"] = last'.before.m["_id"]
                   /\ store'.sent[1].m["_rev"] = last'.before.m["_rev"]
                   /\ DOMAIN store'.revs = DOMAIN store.revs
                   /\ store'.uuid = store.uuid ]_vars

\* an instance saved once was saved again after a change
C19_Witness ==
    /\ last.op = "save" /\ last.exc = "ok" /\ last.doc = 1
    /\ "_rev" \in DOMAIN last.before.m
    /\ last.before.m["_rev"] = Rev(1)
    /\ LastDoc["_rev"] = Rev(2)
    /\ "x" \in DOMAIN store.bodies["u1"].m
    /\ store.bodies["u1"].m["x"] = IntV(2)

\* instance i holds a revision of a stored document that is not the
\* current one
Stale(i) ==
    /\ i \in DOMAIN docs
    /\ DocGet(World, i, "_id") # None
    /\ DocGet(World, i, "_id").s \in DOMAIN store.revs
    /\ DocGet(World, i, "_rev") # None
    /\ DocGet(World, i, "_rev") # Rev(store.revs[DocGet(World, i, "_id").s])

\* C20: a save or a delete through an instance whose _rev is stale is
\* rejected as a conflict and leaves the stored documents as they were.
C20_StaleWriteRejected ==
    [][ (last'.op \in {"save", "delete"} /\ Stale(last'.doc))
        => /\ last'.exc = "ResourceConflict"
           /\ store'.revs = store.revs
           /\ store'.bodies = store.bodies ]_vars

-----------------------------------------------------------------------------
(* SpecTyped: a list field with a declared item type.                      *)
(*   class A(Document): l = ListProperty(item_type=datetime)   (or str)    *)
(*   a = A();  w = a.l;  w.append(v);  a.validate();  a.save()             *)

ItemTypes == {"datetime", "str"}

\* elements a caller appends: a plain string, a string that reads as a
\* timestamp, a datetime, an integer
Elements == {StrV("a"), IsoDateTime(1), DateTime(1, 5), IntV(1)}

InitTyped ==
    \E item_type \in ItemTypes :
        LET fields == [k \in {"l"} |-> Prop("List", "l", FALSE, <<>>, None, item_type)]
            w0 == [heap |-> <<>>, docs |-> <<>>, store |-> NoStore,
                   cls |-> [desc |-> fields, props |-> fields, allow |-> TRUE, db |-> TRUE]]
        IN  \E r \in {DocumentSchema__init__(w0, EmptyMap)} : \E c \in {Collect(r.w, <<None, None>>)} :
            /\ heap = c.heap
            /\ docs = c.docs
            /\ held = c.held
            /\ cls = r.w.cls
            /\ store = r.w.store
            /\ last = Done(Call("__init__", 1, "", EmptyDict), r, None)

\* the call made just before this one
Previous == [op |-> last.op, value |-> last.value, exc |-> last.exc]

\* a.validate()
DocValidate(i) ==
    Commit(Call("validate", i, "", None), DocumentSchema_validate(World, i, TRUE), held,
           Previous)

\* a.save(), the call before it remembered
SaveAfter(i) ==
    /\ store.uuid < MaxUuid
    /\ Commit(Call("save", i, "", None), DocumentBase_save(World, i), held, Previous)

NextTyped ==
    \/ \E slot \in Slots : ReadAttr(1, "l", slot)
    \/ \E slot \in Slots, value \in Elements : ListAppend(slot, value)
    \/ DocValidate(1)
    \/ SaveAfter(1)

SpecTyped == InitTyped /\ [][NextTyped]_vars

\* the element is of another type than the one declared for the list
OtherType(value) == value.t # cls.desc["l"].item_type

\* the canonical list of field l
CanonicalList == Deep(heap, docs[1]._doc).m["l"].s

\* C21: appending an element of another type than the declared item type
\* succeeds and the element is in the canonical list; validate() called
\* next raises BadValueError, and save() called next raises it too and
\* nothing reaches the store.
C21_InvalidElementUntilValidated ==
    /\ (last.op = "LazyList.append" /\ OtherType(last.value))
          => /\ last.exc = "ok"
             /\ CanonicalList # <<>>
             /\ CanonicalList[Len(CanonicalList)] = value_to_json(last.value)
    /\ (/\ last.op \in {"validate", "save"}
        /\ last.before.op = "LazyList.append" /\ last.before.exc = "ok"
        /\ OtherType(last.before.value))
          => /\ last.exc = "BadValueError"
             /\ store.sent = <<>>

-----------------------------------------------------------------------------
(* SpecShare: two instances of a shape whose map or list descriptor has a  *)
(* non-empty default that lives on the heap.                               *)
(*   class A(Document): d = DictProperty(default={'a': []})                *)
(*                  (or l = ListProperty(default=[1]))                     *)
(*   a = A();  b = A();  wa = a.d;  wa = wa['a'];  wa.append(v);  b.d      *)
(* Variable i of the caller holds a wrapper read from instance i.          *)

\* the literal given as default of field key
DefaultLiteral(key) ==
    IF key = "d" THEN DictV([k \in {"a"} |-> EmptyList]) ELSE ListV(<<IntV(1)>>)

InitShare ==
    \E key \in {"d", "l"} :
    \E d \in {Build(<<>>, DefaultLiteral(key))} :
        LET fields == [k \in {key} |->
                         Prop(IF key = "d" THEN "Dict" ELSE "List", key, FALSE, <<>>,
                              d.v, "none")]
            w0 == [heap |-> d.h, docs |-> <<>>, store |-> NoStore,
                   cls |-> [desc |-> fields, props |-> fields, allow |-> TRUE, db |-> TRUE]]
        IN  \E a \in {DocumentSchema__init__(w0, EmptyMap)} :
            \E b \in {DocumentSchema__init__(a.w, EmptyMap)} :
            \E c \in {Collect(b.w, <<None, None>>)} :
            /\ a.exc = "ok" /\ b.exc = "ok"
            /\ heap = c.heap
            /\ docs = c.docs
            /\ held = c.held
            /\ cls = c.cls
            /\ store = b.w.store
            /\ last = Done(Call("__init__", 2, "", EmptyDict), b, None)

\* w = w[key] on the wrapper in variable slot, when the item is a container
GetNested(slot, key) ==
    /\ IsRef(held[slot])
    /\ \E g \in {GetItem(heap, held[slot], StrV(key))} :
          /\ g.exc = "ok"
          /\ IsRef(g.v)
          /\ Commit(Call("__getitem__", slot, key, None), Lift(World, g),
                    [held EXCEPT ![slot] = g.v], None)

\* the declared map or list field of the shape
SharedKey == CHOOSE key \in DOMAIN cls.desc : TRUE

\* what instance i shows of the field: its canonical document and the
\* value a read returns
Shown(i) ==
    [canonical |-> Deep(heap, docs[i]._doc),
     read |-> Bind(GetAttr(World, i, SharedKey), LAMBDA r :
                  [exc |-> r.exc, v |-> AsLiteral(r.w.heap, r.v)])]

\* the descriptor's configured default
ConfiguredDefault == Deep(heap, cls.desc[SharedKey].default)

\* a call on the wrapper in variable slot; before is what every instance
\* and the descriptor showed when the call was made
Through(op, slot, key, value, r) ==
    Commit(Call(op, slot, key, value), Lift(World, r), held,
           [shown |-> [i \in DOMAIN docs |-> Shown(i)], default |-> ConfiguredDefault])

ShareDictSetItem(slot, key, value) ==
    /\ IsLazyDict(heap, held[slot])
    /\ Through("LazyDict.__setitem__", slot, key, value,
               LazyDict__setitem__(heap, held[slot], StrV(key), value))

ShareDictDelItem(slot, key) ==
    /\ IsLazyDict(heap, held[slot])
    /\ Through("LazyDict.__delitem__", slot, key, None,
               LazyDict__delitem__(heap, held[slot], StrV(key)))

ShareDictClear(slot) ==
    /\ IsLazyDict(heap, held[slot])
    /\ Through("LazyDict.clear", slot, "", None, LazyDict_clear(heap, held[slot]))

ShareListSetItem(slot, index, value) ==
    /\ IsLazyList(heap, held[slot])
    /\ Through("LazyList.__setitem__", slot, IndexKey(index), value,
               LazyList__setitem__(heap, held[slot], index, value))

ShareListDelItem(slot, index) ==
    /\ IsLazyList(heap, held[slot])
    /\ Through("LazyList.__delitem__", slot, IndexKey(index), None,
               LazyList__delitem__(heap, held[slot], index))

ShareListAppend(slot, value) ==
    /\ IsLazyList(heap, held[slot])
    /\ Len(heap[held[slot].a].s) < MaxLen
    /\ IsListObj(heap, heap[held[slot].a].doc) =>
          Len(heap[heap[held[slot].a].doc.a].s) < MaxLen
    /\ Through("LazyList.append", slot, "", value,
               LazyList_append(heap, held[slot], value))

NextShare ==
    \/ \E i \in DOMAIN docs, key \in DOMAIN cls.desc : ReadAttr(i, key, i)
    \/ \E slot \in Slots, key \in ItemKeys : GetNested(slot, key)
    \/ \E slot \in Slots, key \in ItemKeys, value \in ListValues :
          ShareDictSetItem(slot, key, value)
    \/ \E slot \in Slots, key \in ItemKeys : ShareDictDelItem(slot, key)
    \/ \E slot \in Slots : ShareDictClear(slot)
    \/ \E slot \in Slots, value \in ListValues : ShareListSetItem(slot, 0, value)
    \/ \E slot \in Slots : ShareListDelItem(slot, 0)
    \/ \E slot \in Slots, value \in ListValues : ShareListAppend(slot, value)

SpecShare == InitShare /\ [][NextShare]_vars

\* C22: a mutation made through a wrapper read from one instance changes
\* neither the canonical document nor the read value of the field in the
\* other instance, nor the descriptor's configured default.
C22_NoSharedContainer ==
    last.op \in Mutations
        => /\ \A other \in DOMAIN docs :
                 other # last.doc => Shown(other) = last.before.shown[other]
           /\ ConfiguredDefault = last.before.default
           /\ ConfiguredDefault = DefaultLiteral(SharedKey)

\* an element was appended to the list nested in the map of the first
\* instance, and the second instance and the default still hold the empty
\* list
C22_Witness ==
    /\ last.op = "LazyList.append" /\ last.exc = "ok" /\ last.doc = 1
    /\ SharedKey = "d"
    /\ Shown(1).canonical.m["d"] = DictV([k \in {"a"} |-> ListV(<<IsoDateTime(1)>>)])
    /\ Shown(1).canonical # last.before.shown[1].canonical
    /\ Shown(2).canonical.m["d"] = DefaultLiteral("d")
    /\ ConfiguredDefault = DefaultLiteral("d")

-----------------------------------------------------------------------------
(* SpecClone: an instance and its clone.                                   *)
(*   class A(Document): s = StringProperty(required=True); l = ListProperty() *)
(*   a = A(s=v);  a.key = value;  b = a.clone(s=v, ...);  b.key         *)

\* keyword arguments handed to clone
Overrides ==
    {EmptyMap, [k \in {"s"} |-> StrV("b")], [k \in {"x"} |-> IntV(2)],
     [k \in {"y"} |-> IntV(1)]}

\* values assigned to the fields of the original
CloneAttrValues(key) ==
    CASE key = "s" -> {StrV("a")}
      [] key = "l" -> {ListV(<<IntV(1)>>)}
      [] OTHER -> {DateTime(1, 5), IntV(1)}

\* b = a.clone(...): the second variable is rebound when clone returns
Clone(kw) ==
    LET call == Call("clone", 1, "", DictV(kw)) IN
    \E r \in {DocumentSchema_clone([World EXCEPT !.docs = <<docs[1]>>], 1, kw)} :
        IF r.exc = "ok" THEN Commit(call, r, held, None)
        ELSE Commit(call, WExc(World, r.exc), held, None)

NextClone ==
    \/ \E key \in Names : \E value \in CloneAttrValues(key) : SetAttr(1, key, value)
    \/ \E kw \in Overrides : Clone(kw)
    \/ \E i \in DOMAIN docs, key \in Names : ReadAttr(i, key, 0)

SpecClone == Init /\ [][NextClone]_vars

\* what reading field key of instance i gives
ReadOf(i, key) ==
    Bind(GetAttr(World, i, key), LAMBDA r :
        [exc |-> r.exc, v |-> AsLiteral(r.w.heap, r.v)])

\* the declared and the dynamic fields of instance i
FieldsOf(i) == (DOMAIN cls.desc) \cup (DOMAIN docs[i].dyn)

\* C23: in the instance clone returns, every name given in overrides reads
\* as the override value and every other declared or dynamic field reads as
\* the original's current value.
C23_CloneAppliesOverrides ==
    (last.op = "clone" /\ last.exc = "ok")
        => /\ Len(docs) = 2
           /\ \A key \in DOMAIN last.value.m :
                 ReadOf(2, key) = [exc |-> "ok", v |-> last.value.m[key]]
           /\ \A key \in FieldsOf(1) \ DOMAIN last.value.m :
                 ReadOf(2, key) = ReadOf(1, key)

-----------------------------------------------------------------------------
(* SpecField: one declared field of each kind in turn, with and without a  *)
(* configured default, on a shape that allows dynamic fields.              *)
(*   class A(Document): f = <Kind>Property(default=d)                      *)
(*   a = A();  a.f = v;  a.f = None;  del a.f;  del a['f'];  a.f;  a['f']  *)

FieldKinds ==
    {"String", "Integer", "Float", "Boolean", "Decimal", "DateTime", "Date", "Time",
     "Dict", "List"}

\* a value of the kind that is not None
FieldValue(kind) ==
    CASE kind = "String" -> StrV("a")
      [] kind = "Integer" -> IntV(1)
      [] kind = "Float" -> FloatV(1)
      [] kind = "Boolean" -> BoolV(TRUE)
      [] kind = "Decimal" -> Decimal(1)
      [] kind = "DateTime" -> DateTime(1, 0)
      [] kind = "Date" -> Date(1)
      [] kind = "Time" -> Time(1, 0)
      [] kind = "Dict" -> DictV([k \in {"a"} |-> IntV(1)])
      [] OTHER -> ListV(<<IntV(1)>>)

\* default=d of the declaration; the container kinds are declared without
FieldDefaults(kind) ==
    IF kind \in {"Dict", "List"} THEN {None} ELSE {None, FieldValue(kind)}

FieldNames == {"f", "x"}

InitField ==
    \E kind \in FieldKinds : \E default \in FieldDefaults(kind) :
        LET fields == [k \in {"f"} |-> Prop(kind, "f", FALSE, <<>>, default, "none")]
            w0 == [heap |-> <<>>, docs |-> <<>>, store |-> NoStore,
                   cls |-> [desc |-> fields, props |-> fields, allow |-> TRUE, db |-> TRUE]]
        IN  \E r \in {DocumentSchema__init__(w0, EmptyMap)} : \E c \in {Collect(r.w, <<None, None>>)} :
            /\ r.exc = "ok"
            /\ heap = c.heap
            /\ docs = c.docs
            /\ held = c.held
            /\ cls = c.cls
            /\ store = r.w.store
            /\ last = Done(Call("__init__", 1, "", EmptyDict), r, None)

\* DocumentSchema.__getitem__(self, key)
DocumentSchema__getitem__(w, i, key) ==
    Bind(GetAttr(w, i, key), LAMBDA r :
        IF r.exc # "AttributeError" THEN r
        ELSE IF key \in DOMAIN w.heap[w.docs[i]._doc.a].m THEN WRet(w, DocGet(w, i, key))
        ELSE r)

\* DocumentSchema.__delitem__(self, key)
DocumentSchema__delitem__(w, i, key) ==
    Bind(DocumentSchema__delattr__(w, i, key), LAMBDA r :
        IF r.exc = "AttributeError" THEN WExc(r.w, "KeyError") ELSE r)

\* the keys of a._doc and of a._dynamic_properties
Keys(i) == [doc |-> DOMAIN heap[docs[i]._doc.a].m, dyn |-> DOMAIN docs[i].dyn]

\* a[key]
ReadItem(i, key) ==
    Commit(Call("__getitem__", i, key, None), DocumentSchema__getitem__(World, i, key), held,
           AsLiteral(heap, DocGet(World, i, key)))

\* del a.key, the keys before it kept
DelField(i, key) ==
    Commit(Call("__delattr__", i, key, None), DocumentSchema__delattr__(World, i, key), held,
           Keys(i))

\* del a[key], the keys before it kept
DelKey(i, key) ==
    Commit(Call("__delitem__", i, key, None), DocumentSchema__delitem__(World, i, key), held,
           Keys(i))

NextField ==
    \/ \E value \in {None, FieldValue(cls.desc["f"].kind)} : SetAttr(1, "f", value)
    \/ SetAttr(1, "x", IntV(1))
    \/ \E kw \in {EmptyMap, [k \in {"f"} |-> None]} : Construct(kw)
    \/ \E key \in FieldNames : DelField(1, key)
    \/ \E key \in FieldNames : DelKey(1, key)
    \/ \E key \in FieldNames : ReadAttr(1, key, 0)
    \/ \E key \in FieldNames : ReadItem(1, key)

SpecField == InitField /\ [][NextField]_vars

(* C24: a read of the declared field while its key is absent from the      *)
(* canonical document, or holds null there, returns the default of the     *)
(* descriptor.                                                             *)
C24_AbsentReadsDefault ==
    (last.op = "__getattr__" /\ last.key = "f" /\ last.before = None)
        => /\ last.exc = "ok"
           /\ last.ret = default_value(cls.desc["f"])

\* the same read on a field declared without a non-null default
Rest24 ==
    (last.op = "__getattr__" /\ last.key = "f" /\ last.before = None
        /\ default_value(cls.desc["f"]) = None)
        => last.exc = "ok" /\ last.ret = None

\* the field named by the last call exists: it is declared or registered
FieldExists == last.key \in DOMAIN cls.desc \/ last.key \in last.before.dyn

C25_ReadWitness ==
    /\ last.op = "__getitem__" /\ last.key = "f" /\ "f" \notin Keys(1).doc
    /\ cls.desc["f"].default # None /\ last.ret = None

(* C30: a.f = None on a declared field of any kind succeeds and stores     *)
(* null under the key of the field in the canonical document, as the       *)
(* constructor does for a field without a default.                         *)
C30_NoneStoresNull ==
    (last.op = "__setattr__" /\ last.key = "f" /\ last.value = None)
        => /\ last.exc = "ok"
           /\ "f" \in Keys(last.doc).doc
           /\ DocGet(World, last.doc, "f") = None

\* the assignment of None to a map or list field
Rest30 ==
    (last.op = "__setattr__" /\ last.key = "f" /\ last.value = None
        /\ cls.desc["f"].kind \in {"Dict", "List"})
        => /\ last.exc = "ok"
           /\ "f" \in Keys(last.doc).doc
           /\ DocGet(World, last.doc, "f") = None

\* what a.f = None does on each kind: the outcome and the value stored
NoneOutcome(kind) ==
    CASE kind \in {"String", "Decimal"} -> [exc |-> "ok", stored |-> StrV("None")]
      [] kind = "Boolean" -> [exc |-> "ok", stored |-> BoolV(FALSE)]
      [] kind \in {"Integer", "Float"} -> [exc |-> "TypeError", stored |-> last.before]
      [] kind \in {"DateTime", "Date", "Time"} -> [exc |-> "AttributeError", stored |-> last.before]
      [] OTHER -> [exc |-> "ok", stored |-> None]

Actual30 ==
    (last.op = "__setattr__" /\ last.key = "f" /\ last.value = None)
        => /\ last.exc = NoneOutcome(cls.desc["f"].kind).exc
           /\ AsLiteral(heap, DocGet(World, last.doc, "f")) = NoneOutcome(cls.desc["f"].kind).stored

-----------------------------------------------------------------------------
(* SpecReject: one declared field of each kind in turn, with and without   *)
(* a validator, written with values of every type.                         *)
(*   def v(value): if value == refused: raise BadValueError                *)
(*   class A(Document): f = <Kind>Property(validators=v)                   *)
(*   a = A();  a.f = value;  a.f;  del a.f                                 *)

\* the values written: some of every type, the empty ones among them
WriteValues ==
    UNION {KindValues(kind) : kind \in ConvertKinds}
        \cup {None, FloatV(1), EmptyDict, EmptyList, FieldValue("Dict"), FieldValue("List")}

\* validators=... of the declaration: none, or one refusing a value of the kind
FieldValidators(kind) == {<<>>, <<FieldValue(kind)>>}

InitReject ==
    \E kind \in FieldKinds : \E validators \in FieldValidators(kind) :
        LET fields == [k \in {"f"} |->
                         [Prop(kind, "f", FALSE, <<>>, None, "none") EXCEPT !.validators = validators]]
            w0 == [heap |-> <<>>, docs |-> <<>>, store |-> NoStore,
                   cls |-> [desc |-> fields, props |-> fields, allow |-> TRUE, db |-> TRUE]]
        IN  \E r \in {DocumentSchema__init__(w0, EmptyMap)} : \E c \in {Collect(r.w, <<None, None>>)} :
            /\ r.exc = "ok"
            /\ heap = c.heap
            /\ docs = c.docs
            /\ held = c.held
            /\ cls = c.cls
            /\ store = r.w.store
            /\ last = Done(Call("__init__", 1, "", EmptyDict), r, None)

\* a.f = value, the canonical document and the value read before it kept
Assign(value) ==
    \E g \in {GetAttr(World, 1, "f")} :
    Commit(Call("assign", 1, "f", value), DocumentSchema__setattr__(World, 1, "f", value), held,
           [doc |-> Deep(heap, docs[1]._doc), exc |-> g.exc, read |-> AsLiteral(g.w.heap, g.v)])

NextReject ==
    \/ \E value \in WriteValues : Assign(value)
    \/ ReadAttr(1, "f", 0)
    \/ DelAttr(1, "f")

SpecReject == InitReject /\ [][NextReject]_vars

\* the validation of the descriptor refuses the value written
Rejected == validate(cls.desc["f"], last.value, FALSE).exc # "ok"

\* a.f as it reads now
ReadsNow == Bind(GetAttr(World, 1, "f"), LAMBDA g : [exc |-> g.exc, read |-> AsLiteral(g.w.heap, g.v)])

C26_TypeWitness ==
    /\ last.op = "assign" /\ last.exc = "BadValueError"
    /\ cls.desc["f"].validators = <<>>
    /\ last.before.read # None
    /\ ReadsNow.read = last.before.read

-----------------------------------------------------------------------------
(* SpecQuery: the queries of an instance of the declared shape.            *)
(*   a = A(s='a');  a.x = v;  'x' in a;  list(a);  a.items();              *)
(*   a.all_properties();  a = A()                                          *)

\* DocumentSchema.__contains__(self, key)
DocumentSchema__contains__(w, i, key) ==
    Bind(all_properties(w, i), LAMBDA r :
        WRet(r.w, BoolV(key \in DOMAIN r.v \/ key \in DOMAIN w.heap[w.docs[i]._doc.a].m)))

\* DocumentSchema.__iter__(self), run to its end: the names it yields
DocumentSchema__iter__(w, i) ==
    Bind(all_properties(w, i), LAMBDA r :
        WRet(r.w, ListV([n \in DOMAIN SelectSeq(KeysOf(r.v), LAMBDA k :
                                r.v[k].isprop \/ r.v[k].v # None) |->
                            StrV(SelectSeq(KeysOf(r.v), LAMBDA k :
                                r.v[k].isprop \/ r.v[k].v # None)[n])])))

\* DocumentSchema.items(self)
DocumentSchema_items(w, i) == DocumentSchema__iter__(w, i)

\* the canonical document and the registry of an instance, and the names in
\* the _properties of the shape
Snapshot(i) ==
    [doc |-> Deep(heap, docs[i]._doc),
     dyn |-> [k \in DOMAIN docs[i].dyn |-> AsLiteral(heap, docs[i].dyn[k])],
     props |-> DOMAIN cls.props]

\* a.all_properties()
AllProperties(i) ==
    \E r \in {all_properties(World, i)} :
    Commit(Call("all_properties", i, "", None), WRet(r.w, None), held, Snapshot(i))

\* key in a
Contains(i, key) ==
    Commit(Call("__contains__", i, key, None), DocumentSchema__contains__(World, i, key), held,
           Snapshot(i))

\* list(a)
Iterate(i) ==
    Commit(Call("__iter__", i, "", None), DocumentSchema__iter__(World, i), held, Snapshot(i))

\* a.items()
Items(i) ==
    Commit(Call("items", i, "", None), DocumentSchema_items(World, i), held, Snapshot(i))

NextQuery ==
    \/ \E key \in Names : \E value \in AttrValues(key) : SetAttr(1, key, value)
    \/ \E key \in Names : Contains(1, key)
    \/ Iterate(1)
    \/ Items(1)
    \/ AllProperties(1)
    \/ \E key \in Names : ReadAttr(1, key, 0)
    \/ \E kw \in Kwargs : Construct(kw)

SpecQuery == Init /\ [][NextQuery]_vars

Queries == {"__contains__", "__iter__", "items", "all_properties"}

(* C27: a membership test, an iteration, items() and all_properties()      *)
(* leave the canonical document and the dynamic-field registry of the      *)
(* instance and the declared descriptor map of the shape as they were,     *)
(* and the declared descriptor map holds the declared fields only.         *)
C27_QueriesChangeNothing ==
    /\ last.op \in Queries =>
        /\ last.exc = "ok"
        /\ Snapshot(last.doc) = last.before
    /\ DOMAIN cls.props = DOMAIN Declared

\* the same queries, the declared descriptor map of the shape left aside
Rest27 ==
    last.op \in Queries =>
        /\ last.exc = "ok"
        /\ Snapshot(last.doc).doc = last.before.doc
        /\ Snapshot(last.doc).dyn = last.before.dyn

-----------------------------------------------------------------------------
(* SpecStatic: a shape with or without dynamic fields, an instance of it   *)
(* and the class methods that read the database.                           *)
(*   class A(StaticDocument): pass        or  class A(Document): pass      *)
(*   a = A();  a.x = 1;  a.save();  b = A.get(id);  b = A.get_or_create()  *)
(*   list(A.view('all'))                                                   *)

InitStatic ==
    \E allow \in BOOLEAN :
    LET w0 == [heap |-> <<>>, docs |-> <<>>, store |-> EmptyStore,
               cls |-> [Root EXCEPT !.allow = allow]]
    IN  \E r \in {DocumentSchema__init__(w0, EmptyMap)} : \E c \in {Collect(r.w, <<None, None>>)} :
        /\ heap = c.heap
        /\ docs = c.docs
        /\ held = c.held
        /\ cls = c.cls
        /\ store = r.w.store
        /\ last = Done(Call("__init__", 1, "", EmptyDict), r, None)

\* a class method that hands back an instance: the second variable is
\* rebound when it returns, and what it did to the class stays when it raises
OnClass(call, r) ==
    OnStore(call, IF r.exc = "ok" THEN r ELSE WExc([World EXCEPT !.cls = r.w.cls,
                                                                 !.store = r.w.store], r.exc),
            [allow |-> cls.allow])

\* b = A.get(docid, dynamic_properties=dynamic_properties)
ClassGet(docid, dynamic_properties) ==
    OnClass(Call("get", 2, docid, BoolV(dynamic_properties)),
            DocumentBase_get_kw([World EXCEPT !.docs = <<docs[1]>>], docid, dynamic_properties))

\* b = A.get_or_create(docid, dynamic_properties=dynamic_properties)
ClassGetOrCreate(docid, dynamic_properties) ==
    /\ docid = None => store.uuid < MaxUuid
    /\ OnClass(Call("get_or_create", 2, "", BoolV(dynamic_properties)),
               DocumentBase_get_or_create([World EXCEPT !.docs = <<docs[1]>>], docid,
                                          dynamic_properties))

\* list(A.view(name, dynamic_properties=dynamic_properties))
ClassView(dynamic_properties) ==
    OnClass(Call("view", 1, "", BoolV(dynamic_properties)),
            QueryMixin_view(World, dynamic_properties))

NextStatic ==
    \/ \E i \in DOMAIN docs : \E value \in {IntV(1), IntV(2)} : SetAttr(i, "x", value)
    \/ \E i \in DOMAIN docs : StoreSave(i)
    \/ \E id \in {"d", "u1"} : \E dp \in BOOLEAN : ClassGet(id, dp)
    \/ \E docid \in {None, StrV("d")} : \E dp \in BOOLEAN : ClassGetOrCreate(docid, dp)
    \/ \E dp \in BOOLEAN : ClassView(dp)

SpecStatic == InitStatic /\ [][NextStatic]_vars

ClassReads == {"get", "get_or_create", "view"}

(* C28: get(), get_or_create() and view() leave the shape as it was        *)
(* declared: a shape that disallows dynamic fields still disallows them    *)
(* afterwards and a shape that allows them still allows them.              *)
C28_ShapeKeepsDynamicFlag ==
    last.op \in ClassReads => cls.allow = last.before.allow

\* the same calls with dynamic_properties naming what the shape declares
Rest28 ==
    (last.op \in ClassReads /\ last.value = BoolV(last.before.allow))
        => cls.allow = last.before.allow

-----------------------------------------------------------------------------
(* SpecAttach: a declared map or list field holding one nested container,  *)
(* read into two variables, and the wrappers mutated through them.         *)
(*   class A(Document): d = DictProperty()     a = A(d={'a': {}})          *)
(*   u = a.d;  v = u['a'];  a.d;  v['b'] = 1;  v.append(1)                 *)

\* the scalars put into a wrapper
ScalarItems == {IntV(1), DateTime(1, 5)}

\* the value the field is constructed with
Holding(key, nested) ==
    IF key = "d" THEN DictV([k \in {"a"} |-> nested]) ELSE ListV(<<nested>>)

InitAttach ==
    \E key \in {"d", "l"} : \E nested \in {EmptyDict, EmptyList} :
        LET fields == [k \in {key} |->
                         Prop(IF key = "d" THEN "Dict" ELSE "List", key, FALSE, <<>>,
                              None, "none")]
            w0 == [heap |-> <<>>, docs |-> <<>>, store |-> NoStore,
                   cls |-> [desc |-> fields, props |-> fields, allow |-> TRUE, db |-> TRUE]]
            kw == [k \in {key} |-> Holding(key, nested)]
        IN  \E r \in {DocumentSchema__init__(w0, kw)} : \E c \in {Collect(r.w, <<None, None>>)} :
            /\ r.exc = "ok"
            /\ heap = c.heap
            /\ docs = c.docs
            /\ held = c.held
            /\ cls = c.cls
            /\ store = r.w.store
            /\ last = Done(Call("__init__", 1, "", DictV(kw)), r, None)

\* v = u[index] on a list wrapper, the variable rebound to the nested wrapper
GetElement(slot, index) ==
    /\ IsRef(held[slot])
    /\ \E g \in {GetItem(heap, held[slot], IntV(index))} :
          /\ g.exc = "ok"
          /\ IsRef(g.v)
          /\ Commit(Call("__getitem__", slot, IndexKey(index), None), Lift(World, g),
                    [held EXCEPT ![slot] = g.v], None)

NextAttach ==
    \/ \E slot \in Slots, key \in DOMAIN cls.desc : ReadAttr(1, key, slot)
    \/ \E slot \in Slots : GetNested(slot, "a")
    \/ \E slot \in Slots : GetElement(slot, 0)
    \/ \E slot \in Slots, value \in ScalarItems : ShareDictSetItem(slot, "b", value)
    \/ \E slot \in Slots, value \in ScalarItems : ShareListAppend(slot, value)

SpecAttach == InitAttach /\ [][NextAttach]_vars

\* the containers of the canonical document of instance i
CanonicalNodes(i) == Range(Trace(heap, <<docs[i]._doc.a>>, <<>>))

\* the container the wrapper in variable slot writes to
NodeOf(slot) == heap[held[slot].a].doc

\* the last call has put its value into the container it writes to
Written ==
    LET node == heap[NodeOf(last.doc).a] IN
    IF last.op = "LazyDict.__setitem__"
    THEN last.key \in DOMAIN node.m /\ node.m[last.key] = value_to_json(last.value)
    ELSE node.s # <<>> /\ node.s[Len(node.s)] = value_to_json(last.value)

(* C29: a mutation made through a wrapper the caller holds, nested or not, *)
(* is made on a container of the canonical document, however often the    *)
(* field has been read since the wrapper was obtained.                     *)
C29_NestedStaysAttached ==
    (last.op \in {"LazyDict.__setitem__", "LazyList.append"} /\ last.exc = "ok")
        => /\ Written
           /\ NodeOf(last.doc).a \in CanonicalNodes(1)

\* the same for the wrapper of the field itself and for a list nested in a map
Rest29 ==
    (last.op \in {"LazyDict.__setitem__", "LazyList.append"} /\ last.exc = "ok"
        /\ \/ NodeOf(last.doc) = heap[docs[1]._doc.a].m[SharedKey]
           \/ (SharedKey = "d" /\ heap[held[last.doc].a].k = "LazyList"))
        => /\ Written
           /\ NodeOf(last.doc).a \in CanonicalNodes(1)

\* every such mutation is written to the container the wrapper was made for
Rest29Written ==
    (last.op \in {"LazyDict.__setitem__", "LazyList.append"} /\ last.exc = "ok") => Written

-----------------------------------------------------------------------------
(* SpecNested: a dynamic map field and the maps nested in it, reached from *)
(* the document each time:  a.d = {};  a.d[k1]...[kn][key] = value         *)

MaxMaps == 2         \* maps nested below the field

NestedKeys == {"a", "b"}
NestedValues == {EmptyDict, DateTime(1, 5)}
Paths == UNION {[1..n -> NestedKeys] : n \in 0..MaxMaps}

\* v[k1]...[kn]
RECURSIVE Walk(_, _, _)
Walk(h, v, path) ==
    IF path = <<>> THEN Ret(h, v)
    ELSE Bind(GetItem(h, v, StrV(Head(path))), LAMBDA g :
             IF g.exc # "ok" THEN g ELSE Walk(h, g.v, Tail(path)))

\* a.d[k1]...[kn]
ReadBack(path) ==
    Bind(GetAttr(World, 1, "d"), LAMBDA r :
        IF r.exc # "ok" THEN Exc(heap, r.exc) ELSE Walk(heap, r.v, path))

RECURSIVE CountMaps(_)
CountMaps(v) ==
    IF v.t # "dict" THEN 0
    ELSE LET keys == KeysOf(v.m)
             sub[j \in 0..Len(keys)] ==
                 IF j = 0 THEN 0 ELSE sub[j - 1] + CountMaps(v.m[keys[j]])
         IN  1 + sub[Len(keys)]

InitNested ==
    LET w0 == [heap |-> <<>>, docs |-> <<>>, cls |-> Shape(TRUE, TRUE), store |-> NoStore]
    IN  \E r \in {DocumentSchema__init__(w0, EmptyMap)} : \E c \in {Collect(r.w, <<None, None>>)} :
        /\ heap = c.heap
        /\ docs = c.docs
        /\ held = c.held
        /\ cls = r.w.cls
        /\ store = r.w.store
        /\ last = Done(Call("__init__", 1, <<>>, EmptyDict), r, None)

\* a.d = {}
AssignMap ==
    Commit(Call("__setattr__", 1, <<>>, EmptyDict),
           DocumentSchema__setattr__(World, 1, "d", EmptyDict), held, None)

\* a.d[k1]...[kn][key] = value, where a.d[k1]...[kn] is there
SetNested(path, key, value) ==
    \E t \in {ReadBack(path)} :
    \E r \in {IF ~IsLazyDict(heap, t.v) THEN Exc(heap, "TypeError")
              ELSE LazyDict__setitem__(heap, t.v, StrV(key), value)} :
        /\ t.exc = "ok"
        /\ value = EmptyDict => CountMaps(Canonical(1, "d")) <= MaxMaps
        /\ Commit(Call("setnested", 1, Append(path, key), value), Lift(World, r), held,
                  BoolV(t.exc = "ok" /\ IsLazyDict(heap, t.v)))

NextNested ==
    \/ AssignMap
    \/ \E path \in Paths, key \in NestedKeys, value \in NestedValues :
          SetNested(path, key, value)

SpecNested == InitNested /\ [][NextNested]_vars

\* the wrapper and the wrappers nested in it mirror the canonical nodes at
\* the same paths below node
RECURSIVE Attached(_, _, _)
Attached(h, self, node) ==
    /\ IsRef(node)
    /\ h[self.a].doc = node
    /\ \A k \in DOMAIN h[self.a].m :
          IsRef(h[self.a].m[k])
              => /\ k \in DOMAIN h[node.a].m
                 /\ Attached(h, h[self.a].m[k], h[node.a].m[k])

\* C5: for a dynamic map field assigned an empty map, assigning an empty map
\* under a key of the read-back wrapper and setting scalar keys inside the
\* nested map, at any depth, updates the canonical document at the same
\* path, and a read through the document returns the value that was set.
C5_NestedMapTracksCanonical ==
    /\ "d" \in DOMAIN docs[1].dyn
          => /\ InSync(heap, docs[1].dyn["d"])
             /\ Attached(heap, docs[1].dyn["d"], heap[docs[1]._doc.a].m["d"])
    /\ (last.op = "setnested" /\ last.before = BoolV(TRUE))
          => /\ last.exc = "ok"
             /\ AsLiteral(heap, ReadBack(last.key).v) = last.value
             /\ AsLiteral(heap, Walk(heap, docs[1]._doc, <<"d">> \o last.key).v)
                   = value_to_json(last.value)

\* a scalar was set two maps below the field
C5_Witness ==
    /\ last.op = "setnested"
    /\ last.exc = "ok"
    /\ Len(last.key) = 3
    /\ last.value = DateTime(1, 5)
    /\ Canonical(1, "d") # EmptyDict

=============================================================================
